---- MODULE Spec2Model ----
(***************************************************************************)
(* Verification model of the Pardal layout engine                          *)
(* (packages/pardal/src/pardal): the element builder, the multi-pass       *)
(* layout solver of domain/layout/engine.ts, the markdown tokenizer and    *)
(* the greedy line wrapper.                                                *)
(*                                                                         *)
(* Lengths are integers (points).  A JavaScript division x / k is `\div`;  *)
(* the declarations below keep the divided quantities multiples of k       *)
(* wherever a claim depends on the quotient.  A string is a sequence of    *)
(* one-character strings, so that tokenizing, trimming and splitting are   *)
(* computed and not assumed.                                               *)
(***************************************************************************)
EXTENDS Integers, Sequences, FiniteSets, TLC

\* ------------------------------------------------------------------------
\* Bounds of the model
\* ------------------------------------------------------------------------
MaxElements == 3
\* pages a document opens, and calls of render() on one engine
MaxPages == 2
MaxRenders == 2
\* characters of a markdown text
MaxLen == 4
\* contexts the host creates with initialize()
MaxInstances == 2

\* ------------------------------------------------------------------------
\* Program constants
\* ------------------------------------------------------------------------
DEFAULT_MIN_SIZE == 0
DEFAULT_MAX_SIZE == 100000
DEFAULT_PADDING == 0
\* fallback of initializeRootElements for a dimension that is still 0
DefaultRootSize == 100
\* createElement: fontSize: config.fontSize || 16
DefaultFontSize == 16
\* context.lineSpacingFactor = 1.2, kept as a fraction of integers
LineSpacingNum == 12
LineSpacingDen == 10
\* font port: advance width per character at the font size of the scenarios
CharWidth == 6

NL == "\n"

Max(a, b) == IF a >= b THEN a ELSE b
Min(a, b) == IF a <= b THEN a ELSE b

\* ------------------------------------------------------------------------
\* Strings as sequences of characters
\* ------------------------------------------------------------------------
\* JavaScript \s over the alphabet of the model
IsSpace(c) == c \in {" ", NL}

RECURSIVE TrimStart(_)
TrimStart(s) ==
    IF s = <<>> THEN <<>>
    ELSE IF IsSpace(Head(s)) THEN TrimStart(Tail(s)) ELSE s

RECURSIVE TrimEnd(_)
TrimEnd(s) ==
    IF s = <<>> THEN <<>>
    ELSE IF IsSpace(s[Len(s)]) THEN TrimEnd(SubSeq(s, 1, Len(s) - 1)) ELSE s

\* String.prototype.trim
Trim(s) == TrimEnd(TrimStart(s))

\* index of the first occurrence of c in s, 0 if there is none
RECURSIVE IndexOfFrom(_, _, _)
IndexOfFrom(s, c, i) ==
    IF i > Len(s) THEN 0
    ELSE IF s[i] = c THEN i ELSE IndexOfFrom(s, c, i + 1)

Includes(s, c) == IndexOfFrom(s, c, 1) # 0

\* String.prototype.split(c): the pieces between the occurrences of c
RECURSIVE Split(_, _)
Split(s, c) ==
    LET k == IndexOfFrom(s, c, 1)
    IN  IF k = 0 THEN << s >>
        ELSE << SubSeq(s, 1, k - 1) >> \o Split(SubSeq(s, k + 1, Len(s)), c)

\* String.prototype.replace(/c/g, ''): s without the character c
RECURSIVE RemoveChar(_, _)
RemoveChar(s, c) ==
    IF s = <<>> THEN <<>>
    ELSE IF Head(s) = c THEN RemoveChar(Tail(s), c)
    ELSE << Head(s) >> \o RemoveChar(Tail(s), c)

\* length of the longest prefix of s whose characters are all of the class
\* (space / non-space) of its first character
RECURSIVE RunLength(_, _)
RunLength(s, i) ==
    IF i > Len(s) THEN Len(s)
    ELSE IF IsSpace(s[i]) # IsSpace(s[1]) THEN i - 1
    ELSE RunLength(s, i + 1)

\* a variant that matches /\S+/g: the runs of whitespace are dropped
RECURSIVE MatchTokensWordsOnly(_)
MatchTokensWordsOnly(s) ==
    IF s = <<>> THEN <<>>
    ELSE LET n == RunLength(s, 1)
         IN  (IF IsSpace(s[1]) THEN <<>> ELSE << SubSeq(s, 1, n) >>)
             \o MatchTokensWordsOnly(SubSeq(s, n + 1, Len(s)))

\* s.match(/(\S+|\s+)/g) || []
RECURSIVE MatchTokens(_)
MatchTokens(s) ==
    IF s = <<>> THEN <<>>
    ELSE LET n == RunLength(s, 1)
         IN  << SubSeq(s, 1, n) >> \o MatchTokens(SubSeq(s, n + 1, Len(s)))

RECURSIVE Concat(_)
Concat(ss) == IF ss = <<>> THEN <<>> ELSE Head(ss) \o Concat(Tail(ss))

\* ------------------------------------------------------------------------
\* Markdown tokenizer (domain/utils/markdown.ts)
\* ------------------------------------------------------------------------
\* the character loop of parseMarkdownText: st = [segments, inBold,
\* inItalic, currentText]; addCurrentSegment pushes a non-empty currentText
AddCurrentSegment(st) ==
    IF st.currentText # <<>>
    THEN [st EXCEPT !.segments = Append(@, [text |-> st.currentText,
                                             bold |-> st.inBold,
                                             italic |-> st.inItalic]),
                    !.currentText = <<>>]
    ELSE st

RECURSIVE ParseChars(_, _, _)
ParseChars(text, i, st) ==
    IF i > Len(text) THEN AddCurrentSegment(st)
    ELSE IF text[i] = "*"
         THEN IF i + 1 <= Len(text) /\ text[i + 1] = "*"
              THEN ParseChars(text, i + 2,
                     [AddCurrentSegment(st) EXCEPT !.inBold = ~ @])
              ELSE ParseChars(text, i + 1,
                     [AddCurrentSegment(st) EXCEPT !.inItalic = ~ @])
         ELSE ParseChars(text, i + 1,
                     [st EXCEPT !.currentText = Append(@, text[i])])

\* the words of one segment: one token per run of spaces or of non-spaces
SegmentWords(seg) ==
    LET tokens == MatchTokens(seg.text)
    IN  [k \in 1..Len(tokens) |->
            [text |-> tokens[k], bold |-> seg.bold, italic |-> seg.italic]]

RECURSIVE SegmentsToWords(_)
SegmentsToWords(segs) ==
    IF segs = <<>> THEN <<>>
    ELSE SegmentWords(Head(segs)) \o SegmentsToWords(Tail(segs))

cleanSegments(segments) ==
    LET cleaned == [k \in 1..Len(segments) |->
                       [segments[k] EXCEPT !.text = RemoveChar(@, "*")]]
        kept == SelectSeq(cleaned, LAMBDA s : Len(s.text) > 0)
    IN  SegmentsToWords(kept)

parseMarkdownText(text) ==
    IF text = <<>> THEN <<>>
    ELSE IF ~ Includes(text, "*")
    THEN SegmentWords([text |-> text, bold |-> FALSE, italic |-> FALSE])
    ELSE cleanSegments(ParseChars(text, 1,
             [segments |-> <<>>, inBold |-> FALSE, inItalic |-> FALSE,
              currentText |-> <<>>]).segments)

\* ------------------------------------------------------------------------
\* Word measurer (engine.ts)
\* ------------------------------------------------------------------------
VARIABLE document            \* input: the kind of document being built

\* the font port the document is created with (options.pdfKitFactory): the
\* port of the faulty documents throws when it measures "ab" and returns a
\* negative number for "cd"
PortThrows(s) == document = "faulty" /\ s = << "a", "b" >>

PortReturnsNegative(s) == document = "faulty" /\ s = << "c", "d" >>

\* the font port pdfDoc.widthOfString: a fixed advance width per character
widthOfString(s) ==
    IF PortReturnsNegative(s) THEN 0 - CharWidth * Len(s)
    ELSE CharWidth * Len(s)

\* the width of a token: what the port returns, or the estimate of the
\* catch block when the port throws
TokenWidth(s, fontSize) ==
    IF PortThrows(s) THEN (Len(s) * fontSize) \div 2 ELSE widthOfString(s)

\* the tokens logger.warn is called for
WarnedTokens(tokens) ==
    {i \in 1..Len(tokens) : PortThrows(tokens[i].text)}

measureTextDimensions(textContent, fontSize) ==
    IF textContent = <<>> THEN [width |-> 0, height |-> 0]
    ELSE [width |-> widthOfString(textContent), height |-> fontSize]

\* parseText of domain/utils/text: the content as styled tokens, a token
\* per word, per run of whitespace and per line break, which is what the
\* markdown tokenizer yields
parseText(text) == parseMarkdownText(text)

measureWords(text, fontSize) ==
    IF text = <<>> THEN <<>>
    ELSE LET wordsToProcess == parseText(text)
         IN  [i \in 1..Len(wordsToProcess) |->
                [text |-> wordsToProcess[i].text,
                 bold |-> wordsToProcess[i].bold,
                 italic |-> wordsToProcess[i].italic,
                 width |-> TokenWidth(wordsToProcess[i].text, fontSize),
                 height |-> fontSize]]

\* ------------------------------------------------------------------------
\* Line wrapper (engine.ts, wrapTextIntoLines)
\* ------------------------------------------------------------------------
\* currentLine === null
NullLine == [isNull |-> TRUE, content |-> <<>>, width |-> 0, height |-> 0]
\* { content: [], dimensions: { width: 0, height: 0 } }
EmptyLine == [isNull |-> FALSE, content |-> <<>>, width |-> 0, height |-> 0]

LineOf(word) ==
    [isNull |-> FALSE, content |-> << word >>,
     width |-> word.width, height |-> word.height]

PushWord(line, word) ==
    [line EXCEPT !.content = Append(@, word),
                 !.width = @ + word.width,
                 !.height = Max(@, word.height)]

\* what is stored in lines: the WrappedTextLine without the null marker
Stored(line) ==
    [content |-> line.content, width |-> line.width, height |-> line.height]

WrapStart == [lines |-> <<>>, currentLine |-> NullLine, currentLineWidth |-> 0]

\* the branch of the loop body for a word that contains a line break
WrapBreakWord(st, word) ==
    LET parts == Split(word.text, NL)
        first == Trim(parts[1])
        firstPart == [word EXCEPT !.text = first,
                                  !.width = widthOfString(first)]
        opened == IF st.currentLine.isNull THEN EmptyLine ELSE st.currentLine
        afterFirst ==
            IF first # <<>>
            THEN [st EXCEPT !.currentLine = PushWord(opened, firstPart),
                            !.currentLineWidth = @ + firstPart.width]
            ELSE st
        flushed ==
            IF ~ afterFirst.currentLine.isNull
               /\ Len(afterFirst.currentLine.content) > 0
            THEN Append(afterFirst.lines, Stored(afterFirst.currentLine))
            ELSE afterFirst.lines
        second == IF Len(parts) >= 2 THEN Trim(parts[2]) ELSE <<>>
        secondPart == [word EXCEPT !.text = second,
                                   !.width = widthOfString(second)]
    IN  IF second # <<>>
        THEN [lines |-> flushed, currentLine |-> LineOf(secondPart),
              currentLineWidth |-> secondPart.width]
        ELSE [lines |-> flushed, currentLine |-> NullLine,
              currentLineWidth |-> 0]

\* a variant that drops the word that did not fit
WrapPlainWordDropping(st, word, containerWidth) ==
    LET opened == IF st.currentLine.isNull THEN EmptyLine ELSE st.currentLine
    IN  IF st.currentLineWidth + word.width <= containerWidth
        THEN [st EXCEPT !.currentLine = PushWord(opened, word),
                        !.currentLineWidth = @ + word.width]
        ELSE [lines |-> Append(st.lines, Stored(opened)),
              currentLine |-> NullLine,
              currentLineWidth |-> 0]

\* the branch of the loop body for a word without a line break
WrapPlainWord(st, word, containerWidth) ==
    LET opened == IF st.currentLine.isNull THEN EmptyLine ELSE st.currentLine
    IN  IF st.currentLineWidth + word.width <= containerWidth
        THEN [st EXCEPT !.currentLine = PushWord(opened, word),
                        !.currentLineWidth = @ + word.width]
        ELSE [lines |-> Append(st.lines, Stored(opened)),
              currentLine |-> LineOf(word),
              currentLineWidth |-> word.width]

\* one iteration of the for loop of wrapTextIntoLines
WrapWord(st, word, containerWidth) ==
    IF Includes(word.text, NL) THEN WrapBreakWord(st, word)
    ELSE WrapPlainWord(st, word, containerWidth)

\* after the loop: the last line is pushed when it holds a word
WrapFinish(st) ==
    IF ~ st.currentLine.isNull /\ Len(st.currentLine.content) > 0
    THEN Append(st.lines, Stored(st.currentLine))
    ELSE st.lines

RECURSIVE WrapLoop(_, _, _, _)
WrapLoop(st, words, i, containerWidth) ==
    IF i > Len(words) THEN st
    ELSE WrapLoop(WrapWord(st, words[i], containerWidth), words, i + 1,
                  containerWidth)

wrapTextIntoLines(text, words, containerWidth) ==
    IF text = <<>> \/ words = <<>> THEN <<>>
    ELSE WrapFinish(WrapLoop(WrapStart, words, 1, containerWidth))

\* ------------------------------------------------------------------------
\* Sizing helpers (domain/layout/sizing.ts, Sizing)
\* ------------------------------------------------------------------------
FIT == "FIT"
GROW == "GROW"
PERCENT == "PERCENT"
FIXED == "FIXED"
ROW == "row"
COLUMN == "column"

\* percent is kept in hundredths: Sizing.percent(0.25) is SizingPercent(25)
SizingFixed(size) ==
    [type |-> FIXED, fixed |-> size, percent |-> 0, min |-> size, max |-> size]
SizingFit(min, max) ==
    [type |-> FIT, fixed |-> 0, percent |-> 0, min |-> min, max |-> max]
SizingGrow(min, max) ==
    [type |-> GROW, fixed |-> 0, percent |-> 0, min |-> min, max |-> max]
SizingPercent(percent, min, max) ==
    [type |-> PERCENT, fixed |-> 0, percent |-> percent, min |-> min, max |-> max]

\* childSizing.size.minMax?.min || DEFAULT_MIN_SIZE
MinOf(axis) == IF axis.min = 0 THEN DEFAULT_MIN_SIZE ELSE axis.min
\* childSizing.size.minMax?.max || DEFAULT_MAX_SIZE
MaxOf(axis) == IF axis.max = 0 THEN DEFAULT_MAX_SIZE ELSE axis.max

\* parsePadding of a number
parsePadding(n) == [left |-> n, right |-> n, top |-> n, bottom |-> n]

PaddingX(e) == e.layoutConfig.padding.left + e.layoutConfig.padding.right
PaddingY(e) == e.layoutConfig.padding.top + e.layoutConfig.padding.bottom

\* textConfig.lineHeight || fontSize * lineSpacingFactor
LineHeightOf(e) ==
    IF e.textConfig.lineHeight # 0 THEN e.textConfig.lineHeight
    ELSE (e.textConfig.fontSize * LineSpacingNum) \div LineSpacingDen

IsText(e) == e.elementType = "text" /\ e.textConfig.defined

\* a variant without the extra space between lines
RECURSIVE TextHeightFlat(_, _, _)
TextHeightFlat(lines, i, lineHeight) ==
    IF i > Len(lines) THEN 0
    ELSE lines[i].height + TextHeightFlat(lines, i + 1, lineHeight)

\* the height of wrapped text: the line heights plus, after every line but
\* the last, the extra lineHeight - line height
RECURSIVE TextHeight(_, _, _)
TextHeight(lines, i, lineHeight) ==
    IF i > Len(lines) THEN 0
    ELSE lines[i].height
         + (IF i < Len(lines) THEN lineHeight - lines[i].height ELSE 0)
         + TextHeight(lines, i + 1, lineHeight)

\* ------------------------------------------------------------------------
\* Intrinsic minima (engine.ts, calculateMinimumDimensions)
\* ------------------------------------------------------------------------
applyFitSizingConstraints(e) ==
    LET ws == e.layoutConfig.sizing.width
        hs == e.layoutConfig.sizing.height
    IN  [e EXCEPT
           !.minDimensions.width =
               IF ws.type = FIT THEN Min(Max(@, MinOf(ws)), MaxOf(ws)) ELSE 0,
           !.minDimensions.height =
               IF hs.type = FIT THEN Min(Max(@, MinOf(hs)), MaxOf(hs)) ELSE 0]

\* the text case of calculateElementFitSize
TextFitSize(e) ==
    LET words == measureWords(e.textConfig.content, e.textConfig.fontSize)
        lineHeight == LineHeightOf(e)
    IN  IF e.dimensions.width > 0
        THEN LET wrappedLines ==
                     wrapTextIntoLines(e.textConfig.content, words,
                                       e.dimensions.width - PaddingX(e))
                 h == TextHeight(wrappedLines, 1, lineHeight) + PaddingY(e)
             IN  applyFitSizingConstraints(
                   [e EXCEPT !.measuredWords = [defined |-> TRUE, words |-> words],
                             !.wrappedTextLines =
                                 [defined |-> TRUE, lines |-> wrappedLines],
                             !.minDimensions =
                                 [width |-> e.dimensions.width, height |-> h],
                             !.dimensions.height = h])
        ELSE LET nat == measureTextDimensions(e.textConfig.content,
                                              e.textConfig.fontSize)
                 m == [width |-> nat.width + PaddingX(e),
                       height |-> nat.height + PaddingY(e)]
             IN  applyFitSizingConstraints(
                   [e EXCEPT !.measuredWords = [defined |-> TRUE, words |-> words],
                             !.wrappedTextLines =
                                 IF @.defined THEN @
                                 ELSE [defined |-> TRUE,
                                       lines |-> << [content |-> words,
                                                     width |-> nat.width,
                                                     height |-> nat.height] >>],
                             !.minDimensions = m,
                             !.dimensions = m])

\* the size a child contributes to the minimum of its parent
ChildMinWidth(c) ==
    IF c.layoutConfig.sizing.width.type = FIXED
       /\ c.layoutConfig.sizing.width.fixed # 0
    THEN c.layoutConfig.sizing.width.fixed ELSE c.minDimensions.width
ChildMinHeight(c) ==
    IF c.layoutConfig.sizing.height.type = FIXED
       /\ c.layoutConfig.sizing.height.fixed # 0
    THEN c.layoutConfig.sizing.height.fixed ELSE c.minDimensions.height

RECURSIVE SumOver(_, _, _)
SumOver(f, kids, i) ==
    IF i > Len(kids) THEN 0 ELSE f[kids[i]] + SumOver(f, kids, i + 1)

RECURSIVE MaxOver(_, _, _)
MaxOver(f, kids, i) ==
    IF i > Len(kids) THEN 0 ELSE Max(f[kids[i]], MaxOver(f, kids, i + 1))

calculateElementFitSize(es, i) ==
    LET e == es[i]
        kids == e.children
        n == Len(kids)
        cw == [k \in 1..Len(es) |-> ChildMinWidth(es[k])]
        ch == [k \in 1..Len(es) |-> ChildMinHeight(es[k])]
        isRowLayout == e.layoutConfig.layoutDirection = ROW
        gaps == (n - 1) * e.layoutConfig.childGap
    IN  IF IsText(e) THEN [es EXCEPT ![i] = TextFitSize(e)]
        ELSE IF n = 0
        THEN [es EXCEPT ![i].minDimensions =
                 [width |-> IF e.layoutConfig.sizing.width.type = FIT
                            THEN MinOf(e.layoutConfig.sizing.width) ELSE 0,
                  height |-> IF e.layoutConfig.sizing.height.type = FIT
                             THEN MinOf(e.layoutConfig.sizing.height) ELSE 0]]
        ELSE [es EXCEPT ![i] = applyFitSizingConstraints(
                 [e EXCEPT !.minDimensions =
                    [width |-> IF isRowLayout
                               THEN SumOver(cw, kids, 1) + gaps + PaddingX(e)
                               ELSE MaxOver(cw, kids, 1) + PaddingX(e),
                     height |-> IF isRowLayout
                                THEN MaxOver(ch, kids, 1) + PaddingY(e)
                                ELSE SumOver(ch, kids, 1) + gaps + PaddingY(e)]])]

RECURSIVE calculateElementMinimumDimensions(_, _)
RECURSIVE MinimumOfChildren(_, _, _)
MinimumOfChildren(es, kids, k) ==
    IF k > Len(kids) THEN es
    ELSE MinimumOfChildren(calculateElementMinimumDimensions(es, kids[k]),
                           kids, k + 1)

calculateElementMinimumDimensions(es, i) ==
    calculateElementFitSize(MinimumOfChildren(es, es[i].children, 1), i)

\* the elements every pass starts from: those not on the open stack
RootElements(es, stack) ==
    SelectSeq([k \in 1..Len(es) |-> k],
              LAMBDA k : \A j \in 1..Len(stack) : stack[j] # k)

RECURSIVE MinimumOfRoots(_, _, _)
MinimumOfRoots(es, roots, k) ==
    IF k > Len(roots) THEN es
    ELSE MinimumOfRoots(calculateElementMinimumDimensions(es, roots[k]),
                        roots, k + 1)

calculateMinimumDimensions(es, stack) ==
    MinimumOfRoots(es, RootElements(es, stack), 1)

\* ------------------------------------------------------------------------
\* Root initialization (engine.ts, initializeRootElements)
\* ------------------------------------------------------------------------
InitialWidth(e, page) ==
    IF e.layoutConfig.sizing.width.type = GROW THEN page.width
    ELSE DefaultRootSize
InitialHeight(e, page) ==
    IF e.layoutConfig.sizing.height.type = GROW THEN page.height
    ELSE DefaultRootSize

initializeRootElements(es, stack, page) ==
    [k \in 1..Len(es) |->
        IF \E j \in 1..Len(stack) : stack[j] = k THEN es[k]
        ELSE [es[k] EXCEPT
                !.dimensions.width =
                    IF @ = 0 THEN InitialWidth(es[k], page) ELSE @,
                !.dimensions.height =
                    IF @ = 0 THEN InitialHeight(es[k], page) ELSE @]]

\* ------------------------------------------------------------------------
\* Space distribution (engine.ts, sizeContainersAlongAxis)
\* ------------------------------------------------------------------------
SizeOf(e, isXAxis) ==
    IF isXAxis THEN e.dimensions.width ELSE e.dimensions.height
SetSize(e, isXAxis, v) ==
    IF isXAxis THEN [e EXCEPT !.dimensions.width = v]
    ELSE [e EXCEPT !.dimensions.height = v]
SizingOf(e, isXAxis) ==
    IF isXAxis THEN e.layoutConfig.sizing.width
    ELSE e.layoutConfig.sizing.height
MinDimensionOf(e, isXAxis) ==
    IF isXAxis THEN e.minDimensions.width ELSE e.minDimensions.height
PaddingOf(e, isXAxis) == IF isXAxis THEN PaddingX(e) ELSE PaddingY(e)

IsLayoutAlongAxis(e, isXAxis) ==
    \/ isXAxis /\ e.layoutConfig.layoutDirection = ROW
    \/ ~ isXAxis /\ e.layoutConfig.layoutDirection = COLUMN

\* a FIT parent is raised to its minimum before its children are sized
FitAdjust(e, isXAxis) ==
    IF SizingOf(e, isXAxis).type = FIT
       /\ MinDimensionOf(e, isXAxis) > 0
       /\ SizeOf(e, isXAxis) < MinDimensionOf(e, isXAxis)
    THEN SetSize(e, isXAxis, MinDimensionOf(e, isXAxis))
    ELSE e

\* the space left for the children: the parent size read on entry, minus
\* padding, floored at 0, minus the gaps
AvailableSpace(parent, isXAxis) ==
    Max(0, SizeOf(parent, isXAxis) - PaddingOf(parent, isXAxis))
    - (Len(parent.children) - 1) * parent.layoutConfig.childGap

\* the size the first loop gives a FIXED, PERCENT or FIT child
AssignedSize(c, isXAxis, availableSpace) ==
    LET sz == SizingOf(c, isXAxis)
    IN  CASE sz.type = FIXED -> sz.fixed
          [] sz.type = PERCENT ->
                Max(Min((availableSpace * sz.percent) \div 100, MaxOf(sz)),
                    MinOf(sz))
          [] sz.type = FIT -> MinDimensionOf(c, isXAxis)
          [] OTHER -> SizeOf(c, isXAxis)

\* the size a GROW child gets from the remaining space
GrowSize(sz, remainingSpace, growContainerCount) ==
    Max(Min(remainingSpace \div growContainerCount, MaxOf(sz)), MinOf(sz))

\* a variant that takes the gaps between the children off the space of the
\* perpendicular axis as well
PerpendicularSizeLessGaps(parent, isXAxis) ==
    SizeOf(parent, isXAxis) - PaddingOf(parent, isXAxis)
    - (Len(parent.children) - 1) * parent.layoutConfig.childGap

\* the space of the axis perpendicular to the layout: the parent size read
\* on entry minus the padding
PerpendicularSize(parent, isXAxis) ==
    SizeOf(parent, isXAxis) - PaddingOf(parent, isXAxis)

\* the distribution among the children of one parent, without the recursion
DistributeLevel(es, p, isXAxis) ==
    LET parent == es[p]
        kids == parent.children
        isKid(k) == \E j \in 1..Len(kids) : kids[j] = k
        along == IsLayoutAlongAxis(parent, isXAxis)
        availableSpace == AvailableSpace(parent, isXAxis)
        isGrow(k) == SizingOf(es[k], isXAxis).type = GROW
        assigned == [k \in 1..Len(es) |->
                        IF isKid(k) /\ ~ isGrow(k)
                        THEN AssignedSize(es[k], isXAxis, availableSpace)
                        ELSE 0]
        totalFixedAndPercentSpace ==
            IF along THEN SumOver(assigned, kids, 1) ELSE 0
        growContainerCount == Cardinality({k \in 1..Len(es) : isKid(k) /\ isGrow(k)})
        remainingSpace == Max(0, availableSpace - totalFixedAndPercentSpace)
        perpendicularSize == PerpendicularSize(parent, isXAxis)
        grown(k) ==
            LET sz == SizingOf(es[k], isXAxis)
                g == IF growContainerCount > 0 /\ remainingSpace > 0
                     THEN GrowSize(sz, remainingSpace, growContainerCount)
                     ELSE SizeOf(es[k], isXAxis)
            IN  IF ~ along THEN Min(perpendicularSize, MaxOf(sz)) ELSE g
    IN  [k \in 1..Len(es) |->
            IF k = p /\ ~ isKid(k) THEN FitAdjust(parent, isXAxis)
            ELSE IF ~ isKid(k) THEN es[k]
            ELSE IF isGrow(k) THEN SetSize(es[k], isXAxis, grown(k))
            ELSE SetSize(es[k], isXAxis, assigned[k])]

RECURSIVE distributeSpaceToChildren(_, _, _)
RECURSIVE DistributeToEach(_, _, _, _)
DistributeToEach(es, kids, k, isXAxis) ==
    IF k > Len(kids) THEN es
    ELSE DistributeToEach(distributeSpaceToChildren(es, kids[k], isXAxis),
                          kids, k + 1, isXAxis)

distributeSpaceToChildren(es, p, isXAxis) ==
    IF Len(es[p].children) = 0
    THEN [es EXCEPT ![p] = FitAdjust(@, isXAxis)]
    ELSE DistributeToEach(DistributeLevel(es, p, isXAxis),
                          es[p].children, 1, isXAxis)

sizeContainersAlongAxis(es, stack, isXAxis) ==
    DistributeToEach(es, RootElements(es, stack), 1, isXAxis)

\* ------------------------------------------------------------------------
\* Text reflow (engine.ts, processTextWrapping)
\* ------------------------------------------------------------------------
\* findParentElement: the first element whose children include element i,
\* 0 if there is none
HasChild(e, i) == \E j \in 1..Len(e.children) : e.children[j] = i

findParentElement(es, i) ==
    IF \E k \in 1..Len(es) : HasChild(es[k], i)
    THEN CHOOSE k \in 1..Len(es) :
            /\ HasChild(es[k], i)
            /\ \A j \in 1..(k - 1) : ~ HasChild(es[j], i)
    ELSE 0

\* the height the reflow gives the parent: the children's heights, a gap
\* after every child but the last, and the vertical padding
ParentTotalHeight(es, p) ==
    LET heights == [k \in 1..Len(es) |-> es[k].dimensions.height]
    IN  SumOver(heights, es[p].children, 1)
        + (Len(es[p].children) - 1) * es[p].layoutConfig.childGap
        + PaddingY(es[p])

\* the body of the loop of processTextWrapping for the element at index i
WrapElement(es, i) ==
    LET e == es[i]
        words == IF e.measuredWords.defined THEN e.measuredWords.words
                 ELSE measureWords(e.textConfig.content, e.textConfig.fontSize)
        wrappedLines == wrapTextIntoLines(e.textConfig.content, words,
                                          e.dimensions.width - PaddingX(e))
        totalHeight == TextHeight(wrappedLines, 1, LineHeightOf(e)) + PaddingY(e)
        wrapped == [es EXCEPT
                      ![i].measuredWords = [defined |-> TRUE, words |-> words],
                      ![i].wrappedTextLines =
                          [defined |-> TRUE, lines |-> wrappedLines],
                      ![i].dimensions.height = totalHeight,
                      ![i].minDimensions.height = Max(@, totalHeight)]
        p == findParentElement(es, i)
    IN  IF ~ IsText(e) THEN es
        ELSE IF p # 0 /\ es[p].layoutConfig.sizing.height.type = FIT
        THEN LET parentTotalHeight == ParentTotalHeight(wrapped, p)
             IN  [wrapped EXCEPT
                    ![p].dimensions.height = parentTotalHeight,
                    ![p].minDimensions.height = Max(@, parentTotalHeight)]
        ELSE wrapped

\* ------------------------------------------------------------------------
\* Positioning and command emission (engine.ts, generateRenderCommands)
\* ------------------------------------------------------------------------
\* a render command; element is the index of the element it was emitted
\* for, kept for the properties only
Command(type, i, e, bb, content) ==
    [commandType |-> type, pageId |-> e.pageId, boundingBox |-> bb,
     zIndex |-> 0, content |-> content, element |-> i]

\* an element with Sizing.fit() is raised to its minimum on both axes
FitCorrection(e) ==
    LET h == IF e.layoutConfig.sizing.height.type = FIT
                /\ e.dimensions.height < e.minDimensions.height
             THEN e.minDimensions.height ELSE e.dimensions.height
        w == IF e.layoutConfig.sizing.width.type = FIT
                /\ e.dimensions.width < e.minDimensions.width
             THEN e.minDimensions.width ELSE e.dimensions.width
    IN  [e EXCEPT !.dimensions = [width |-> w, height |-> h]]

\* the text branch, first half: lines that were not computed, or are empty,
\* are computed now and the height follows them
Measured(e) ==
    IF e.measuredWords.defined THEN e
    ELSE [e EXCEPT !.measuredWords =
             [defined |-> TRUE,
              words |-> measureWords(e.textConfig.content,
                                     e.textConfig.fontSize)]]

WithLines(e, lines) ==
    [e EXCEPT
       !.wrappedTextLines = [defined |-> TRUE, lines |-> lines],
       !.dimensions.height =
           TextHeight(lines, 1, LineHeightOf(e)) + PaddingY(e)]

Rewrapped(e) ==
    WithLines(e, wrapTextIntoLines(e.textConfig.content, e.measuredWords.words,
                                   e.dimensions.width - PaddingX(e)))

LateWrap(e) ==
    IF e.wrappedTextLines.defined /\ Len(e.wrappedTextLines.lines) > 0
    THEN e
    ELSE Rewrapped(Measured(e))

\* a variant that centres a line by the whole free width
LineXOffsetWhole(e, line) ==
    LET availableWidth == e.dimensions.width - PaddingX(e)
    IN  CASE e.textConfig.textAlignment = "CENTER" ->
                e.layoutConfig.padding.left + (availableWidth - line.width)
          [] e.textConfig.textAlignment = "RIGHT" ->
                e.dimensions.width - e.layoutConfig.padding.right - line.width
          [] OTHER -> e.layoutConfig.padding.left

\* the x offset of a line inside the bounding box of its element
LineXOffset(e, line) ==
    LET availableWidth == e.dimensions.width - PaddingX(e)
    IN  CASE e.textConfig.textAlignment = "CENTER" ->
                e.layoutConfig.padding.left
                + (availableWidth - line.width) \div 2
          [] e.textConfig.textAlignment = "RIGHT" ->
                e.dimensions.width - e.layoutConfig.padding.right - line.width
          [] OTHER -> e.layoutConfig.padding.left

\* the y of the first line: the top padding plus the share of the free
\* height the vertical alignment asks for
FirstLineY(e, y) ==
    LET lines == e.wrappedTextLines.lines
        contentHeight == TextHeight(lines, 1, LineHeightOf(e))
        extraHeight == Max(0, e.dimensions.height - PaddingY(e) - contentHeight)
    IN  y + e.layoutConfig.padding.top
        + (CASE e.layoutConfig.childAlignment.y = "CENTER" -> extraHeight \div 2
             [] e.layoutConfig.childAlignment.y = "BOTTOM" -> extraHeight
             [] OTHER -> 0)

\* a variant that emits a command for an empty line as well
RECURSIVE LineCommandsForEveryLine(_, _, _, _, _)
LineCommandsForEveryLine(i, e, k, x, yOffset) ==
    LET lines == e.wrappedTextLines.lines
        line == lines[k]
    IN  IF k > Len(lines) THEN <<>>
        ELSE << Command("TEXT", i, e,
                        [x |-> x + LineXOffset(e, line), y |-> yOffset,
                         width |-> line.width, height |-> line.height],
                        line.content) >>
             \o LineCommandsForEveryLine(i, e, k + 1, x,
                                         yOffset + line.height
                                         + (LineHeightOf(e) - line.height))

\* one TEXT command per line that holds a word; an empty line only
\* advances y by its own height
RECURSIVE LineCommands(_, _, _, _, _)
LineCommands(i, e, k, x, yOffset) ==
    LET lines == e.wrappedTextLines.lines
        line == lines[k]
    IN  IF k > Len(lines) THEN <<>>
        ELSE IF Len(line.content) = 0
        THEN LineCommands(i, e, k + 1, x, yOffset + line.height)
        ELSE << Command("TEXT", i, e,
                        [x |-> x + LineXOffset(e, line), y |-> yOffset,
                         width |-> line.width, height |-> line.height],
                        line.content) >>
             \o LineCommands(i, e, k + 1, x,
                             yOffset + line.height
                             + (LineHeightOf(e) - line.height))

\* the text branch, second half: a TEXT command per line, or the fallback of
\* a text without lines, one command with the measured words
TextCommands(i, e, position) ==
    LET nat == measureTextDimensions(e.textConfig.content, e.textConfig.fontSize)
        invalid == e.dimensions.width <= 0 \/ e.dimensions.height <= 0
        bb == [x |-> position.x, y |-> position.y,
               width |-> IF e.dimensions.width <= 0 THEN nat.width
                         ELSE e.dimensions.width,
               height |-> IF e.dimensions.height <= 0 THEN nat.height
                          ELSE e.dimensions.height]
    IN  IF Len(e.wrappedTextLines.lines) > 0
        THEN [element |-> e,
              commands |-> LineCommands(i, e, 1, position.x,
                                        FirstLineY(e, position.y))]
        ELSE [element |->
                 IF invalid
                 THEN [e EXCEPT !.dimensions =
                          [width |-> Max(e.dimensions.width, nat.width),
                           height |-> Max(e.dimensions.height, nat.height)]]
                 ELSE e,
              commands |-> << Command("TEXT", i, e,
                                IF invalid THEN bb
                                ELSE [x |-> position.x, y |-> position.y,
                                      width |-> e.dimensions.width,
                                      height |-> e.dimensions.height],
                                e.measuredWords.words) >>]

\* the text branch of positionElement: the element after it and its commands
TextPlacement(i, e0, position) == TextCommands(i, LateWrap(e0), position)

\* the commands of the element itself, by element type
OwnCommands(i, e, position) ==
    LET bb == [x |-> position.x, y |-> position.y,
               width |-> e.dimensions.width, height |-> e.dimensions.height]
    IN  CASE e.elementType = "rectangle" ->
                [element |-> e,
                 commands |-> << Command("RECTANGLE", i, e, bb, <<>>) >>]
          [] e.elementType = "circle" ->
                [element |-> e,
                 commands |-> << Command("CIRCLE", i, e, bb, <<>>) >>]
          [] IsText(e) -> TextPlacement(i, e, position)
          [] OTHER -> [element |-> e, commands |-> <<>>]

\* the element itself: the fit correction and its own commands
OwnPlacement(i, e0, position) == OwnCommands(i, FitCorrection(e0), position)

\* where the first child starts, from the alignment of the group of children
ChildStart(es, e, position) ==
    LET kids == e.children
        n == Len(kids)
        isRow == e.layoutConfig.layoutDirection = ROW
        widths == [k \in 1..Len(es) |-> es[k].dimensions.width]
        heights == [k \in 1..Len(es) |-> es[k].dimensions.height]
        gaps == (n - 1) * e.layoutConfig.childGap
        childrenTotalWidth == IF isRow THEN SumOver(widths, kids, 1) + gaps ELSE 0
        childrenTotalHeight == IF isRow THEN 0 ELSE SumOver(heights, kids, 1) + gaps
        availableWidth == e.dimensions.width - PaddingX(e) - childrenTotalWidth
        availableHeight == e.dimensions.height - PaddingY(e) - childrenTotalHeight
        ax == e.layoutConfig.childAlignment.x
        ay == e.layoutConfig.childAlignment.y
    IN  [x |-> position.x + e.layoutConfig.padding.left
               + (IF isRow /\ availableWidth > 0
                  THEN (CASE ax = "CENTER" -> availableWidth \div 2
                          [] ax = "RIGHT" -> availableWidth
                          [] OTHER -> 0)
                  ELSE 0),
         y |-> position.y + e.layoutConfig.padding.top
               + (IF ~ isRow /\ availableHeight > 0
                  THEN (CASE ay = "CENTER" -> availableHeight \div 2
                          [] ay = "BOTTOM" -> availableHeight
                          [] OTHER -> 0)
                  ELSE 0)]

\* the shift of one child on the axis perpendicular to the layout
CrossShift(extra, alignment) ==
    IF extra <= 0 THEN 0
    ELSE CASE alignment = "CENTER" -> extra \div 2
           [] alignment \in {"RIGHT", "BOTTOM"} -> extra
           [] OTHER -> 0

\* the position of a child, given the running position current
ChildPosition(e, child, current) ==
    IF e.layoutConfig.layoutDirection = ROW
    THEN [x |-> current.x,
          y |-> current.y
                + CrossShift(e.dimensions.height - PaddingY(e)
                             - child.dimensions.height,
                             e.layoutConfig.childAlignment.y)]
    ELSE [x |-> current.x
                + CrossShift(e.dimensions.width - PaddingX(e)
                             - child.dimensions.width,
                             e.layoutConfig.childAlignment.x),
          y |-> current.y]

\* the running position after a child: its size, and a gap unless it is
\* the last child
Advance(e, child, current, isLast) ==
    LET gap == IF isLast THEN 0 ELSE e.layoutConfig.childGap
    IN  IF e.layoutConfig.layoutDirection = ROW
        THEN [x |-> current.x + child.dimensions.width + gap, y |-> current.y]
        ELSE [x |-> current.x, y |-> current.y + child.dimensions.height + gap]

\* st = [es, commands, processed, placed]; placed records the position
\* each positioned element was given (the code keeps it in the command only)
RECURSIVE positionElement(_, _, _)
RECURSIVE PositionChildren(_, _, _, _)
PositionChildren(st, p, k, current) ==
    LET e == st.es[p]
        child == st.es[e.children[k]]
    IN  IF k > Len(e.children) THEN st
        ELSE PositionChildren(
                 positionElement(st, e.children[k],
                                 ChildPosition(e, child, current)),
                 p, k + 1,
                 Advance(e, child, current, k = Len(e.children)))

\* the element is marked processed, takes its place and emits its commands
Placed(st, i, position, own) ==
    [es |-> [st.es EXCEPT ![i] = own.element],
     commands |-> st.commands \o own.commands,
     processed |-> st.processed \cup {st.es[i].id},
     placed |-> [st.placed EXCEPT ![i] =
                    [defined |-> TRUE, x |-> position.x, y |-> position.y]]]

\* the children of the placed element i, if it has any
PlaceChildren(st, i, position) ==
    IF Len(st.es[i].children) = 0 THEN st
    ELSE PositionChildren(st, i, 1, ChildStart(st.es, st.es[i], position))

positionElement(st, i, position) ==
    IF st.es[i].id \in st.processed THEN st
    ELSE PlaceChildren(Placed(st, i, position,
                              OwnPlacement(i, st.es[i], position)),
                       i, position)

RECURSIVE PositionRoots(_, _, _)
PositionRoots(st, roots, k) ==
    IF k > Len(roots) THEN st
    ELSE PositionRoots(positionElement(st, roots[k], [x |-> 0, y |-> 0]),
                       roots, k + 1)

\* the second loop of generateRenderCommands: one more command for every
\* element that has a position of its own and a positive size
RECURSIVE SecondLoopCommands(_, _)
SecondLoopCommands(es, k) ==
    IF k > Len(es) THEN <<>>
    ELSE LET e == es[k]
             bb == [x |-> e.position.x, y |-> e.position.y,
                    width |-> e.dimensions.width,
                    height |-> e.dimensions.height]
             words == Concat([j \in 1..Len(e.wrappedTextLines.lines) |->
                                 e.wrappedTextLines.lines[j].content])
             own ==
               IF e.dimensions.width <= 0 \/ e.dimensions.height <= 0
                  \/ ~ e.position.defined
               THEN <<>>
               ELSE CASE e.elementType = "rectangle" ->
                           << Command("RECTANGLE", k, e, bb, <<>>) >>
                      [] e.elementType = "circle" ->
                           << Command("CIRCLE", k, e, bb, <<>>) >>
                      [] e.elementType = "text" ->
                           IF e.textConfig.defined /\ e.wrappedTextLines.defined
                              /\ Len(words) > 0
                           THEN << Command("TEXT", k, e, bb, words) >>
                           ELSE <<>>
                      [] OTHER -> <<>>
         IN  own \o SecondLoopCommands(es, k + 1)

WithSecondLoop(st) ==
    [st EXCEPT !.commands = @ \o SecondLoopCommands(st.es, 1)]

generateRenderCommands(es, stack, commands, processed, placed) ==
    WithSecondLoop(PositionRoots([es |-> es, commands |-> commands,
                                  processed |-> processed, placed |-> placed],
                                 RootElements(es, stack), 1))

\* ------------------------------------------------------------------------
\* Consumer of the commands (infrastructure/pdf-renderer.ts, renderToPDF)
\* ------------------------------------------------------------------------
\* the page ids of the commands, ascending
RECURSIVE Ascending(_)
Ascending(ids) ==
    IF ids = {} THEN <<>>
    ELSE LET least == CHOOSE x \in ids : \A y \in ids : x <= y
         IN  << least >> \o Ascending(ids \ {least})

\* Array.prototype.sort by zIndex is stable: a command goes after the
\* commands of a smaller or equal zIndex
InsertByZIndex(sorted, command) ==
    LET n == Cardinality({k \in 1..Len(sorted) :
                             sorted[k].zIndex <= command.zIndex})
    IN  SubSeq(sorted, 1, n) \o << command >>
        \o SubSeq(sorted, n + 1, Len(sorted))

RECURSIVE SortByZIndex(_, _, _)
SortByZIndex(commands, k, sorted) ==
    IF k > Len(commands) THEN sorted
    ELSE SortByZIndex(commands, k + 1, InsertByZIndex(sorted, commands[k]))

\* the commands grouped by page, the pages in ascending order, the
\* commands of a page in the order in which they are drawn
renderToPDF(commands) ==
    LET pageIds == Ascending({commands[k].pageId : k \in 1..Len(commands)})
    IN  [p \in 1..Len(pageIds) |->
            [pageId |-> pageIds[p],
             commands |->
                 SortByZIndex(SelectSeq(commands,
                                        LAMBDA c : c.pageId = pageIds[p]),
                              1, <<>>)]]

\* ------------------------------------------------------------------------
\* Inputs of the builder: the element declarations and the page size
\* ------------------------------------------------------------------------
TextAbCdEf == << "a", "b", " ", "c", "d", " ", "e", "f" >>
TextBreak == << "a", "b", NL, "c", "d" >>
TextOnlyBreak == << NL >>
TextRich == << "*", "*", "A", "*", "*", " ", "b", " ", "*", "c", "*" >>

\* an element without a position of its own
NotPlaced == [defined |-> FALSE, x |-> 0, y |-> 0]

Box(direction, width, height, padding, childGap) ==
    [elementType |-> "rectangle", direction |-> direction,
     width |-> width, height |-> height,
     padding |-> padding, childGap |-> childGap,
     childAlignment |-> [x |-> "LEFT", y |-> "TOP"],
     text |-> <<>>, fontSize |-> 0, textAlignment |-> "LEFT", id |-> 0,
     position |-> NotPlaced]

\* a declaration with absolute: true and the coordinates x and y
Absolute(decl, x, y) ==
    [decl EXCEPT !.position = [defined |-> TRUE, x |-> x, y |-> y]]

Text(content, width, height, textAlignment) ==
    [elementType |-> "text", direction |-> COLUMN,
     width |-> width, height |-> height,
     padding |-> 0, childGap |-> 0,
     childAlignment |-> [x |-> "LEFT", y |-> "TOP"],
     text |-> content, fontSize |-> 10, textAlignment |-> textAlignment,
     id |-> 0, position |-> NotPlaced]

\* the declarations the builder opens with children
ContainerDeclarations ==
    { Box(ROW, SizingGrow(0, DEFAULT_MAX_SIZE), SizingGrow(0, DEFAULT_MAX_SIZE), 0, 0),
      Box(COLUMN, SizingFit(0, DEFAULT_MAX_SIZE), SizingFit(0, DEFAULT_MAX_SIZE), 10, 5),
      Box(ROW, SizingFit(0, DEFAULT_MAX_SIZE), SizingFit(0, DEFAULT_MAX_SIZE), 0, 0) }

\* the rectangles the builder creates and closes at once
BoxDeclarations ==
    { Box(ROW, SizingGrow(0, DEFAULT_MAX_SIZE), SizingGrow(0, DEFAULT_MAX_SIZE), 0, 0),
      Box(ROW, SizingFixed(100), SizingGrow(0, 40), 0, 0),
      Box(COLUMN, SizingFixed(20), SizingPercent(25, 0, DEFAULT_MAX_SIZE), 0, 0) }

TextDeclarations ==
    { Text(TextAbCdEf, SizingFixed(30), SizingFit(0, DEFAULT_MAX_SIZE), "CENTER"),
      Text(TextRich, SizingFit(0, DEFAULT_MAX_SIZE), SizingFit(0, DEFAULT_MAX_SIZE), "LEFT"),
      Text(TextBreak, SizingFixed(10), SizingFit(0, 30), "RIGHT"),
      Text(TextOnlyBreak, SizingFit(0, DEFAULT_MAX_SIZE), SizingFit(20, DEFAULT_MAX_SIZE), "LEFT") }

PageSizes == { [width |-> 100, height |-> 100] }

\* the documents of the padding and gap scenario: a COLUMN root of the
\* size of the page with padding 10 and gap 5, holding rectangles
ScenarioContainers ==
    { Box(COLUMN, SizingGrow(0, DEFAULT_MAX_SIZE), SizingGrow(0, DEFAULT_MAX_SIZE), 10, 5) }

ScenarioLeaves ==
    { Box(ROW, SizingFixed(20), SizingFixed(20), 0, 0),
      Box(ROW, SizingGrow(0, DEFAULT_MAX_SIZE), SizingGrow(0, DEFAULT_MAX_SIZE), 0, 0) }

\* a short text
TextAbc == << "a", "b", "c" >>

\* the strings of at most MaxLen characters out of a letter, a space, the
\* marker and a line break
MarkdownStrings == UNION { [1..n -> { "a", " ", "*", NL }] : n \in 0..MaxLen }

\* the kinds of document the children callback of createDocument builds
Documents ==
    { "general", "scenarios", "absolute", "paged", "loose", "faulty",
      "markdown" }

\* the containers of a document. "absolute": elements declared absolute:
\* true, x: 30, y: 30. "paged": documents that open more than one page and
\* are rendered more than once. "loose": documents that open their pages
\* anywhere, inside the callback of a container too, or never open one
ContainersOf(doc) ==
    CASE doc = "scenarios" -> ScenarioContainers
      [] doc = "absolute" ->
           { Absolute(Box(COLUMN, SizingGrow(0, DEFAULT_MAX_SIZE),
                          SizingGrow(0, DEFAULT_MAX_SIZE), 10, 5), 30, 30) }
      [] doc = "paged" ->
           { Box(ROW, SizingFit(0, DEFAULT_MAX_SIZE),
                 SizingFit(0, DEFAULT_MAX_SIZE), 0, 0),
             Box(COLUMN, SizingGrow(0, DEFAULT_MAX_SIZE),
                 SizingGrow(0, DEFAULT_MAX_SIZE), 0, 0) }
      [] doc = "loose" ->
           { Box(ROW, SizingFit(0, DEFAULT_MAX_SIZE),
                 SizingFit(0, DEFAULT_MAX_SIZE), 0, 0) }
      [] doc \in {"faulty", "markdown"} -> {}
      [] OTHER -> ContainerDeclarations

\* the leaves of a document. "loose": a rectangle with a generated id and
\* one with an id given by the host, which no generated id equals.
\* "faulty": one text, created with a font port that fails. "markdown":
\* one text with markdown
LeavesOf(doc) ==
    CASE doc = "scenarios" -> ScenarioLeaves
      [] doc = "absolute" ->
           { Box(ROW, SizingGrow(0, DEFAULT_MAX_SIZE),
                 SizingGrow(0, DEFAULT_MAX_SIZE), 0, 0),
             Absolute(Text(TextAbc, SizingFit(0, DEFAULT_MAX_SIZE),
                           SizingFit(0, DEFAULT_MAX_SIZE), "LEFT"), 30, 30) }
      [] doc = "paged" ->
           { Text(TextAbc, SizingFit(0, DEFAULT_MAX_SIZE),
                  SizingFit(0, DEFAULT_MAX_SIZE), "LEFT"),
             Box(ROW, SizingFixed(20), SizingFixed(20), 0, 0) }
      [] doc = "loose" ->
           { Box(ROW, SizingFixed(20), SizingFixed(20), 0, 0),
             [Box(ROW, SizingFixed(20), SizingFixed(20), 0, 0)
                 EXCEPT !.id = 0 - 1] }
      [] doc = "faulty" ->
           { Text(TextAbCdEf, SizingFit(0, DEFAULT_MAX_SIZE),
                  SizingFit(0, DEFAULT_MAX_SIZE), "LEFT") }
      [] doc = "markdown" ->
           { Text(str, SizingFit(0, DEFAULT_MAX_SIZE),
                  SizingFit(0, DEFAULT_MAX_SIZE), "LEFT") :
               str \in MarkdownStrings }
      [] OTHER -> BoxDeclarations \cup TextDeclarations

\* the scenarios need a root and three children, a markdown document is
\* one text
ElementLimit(doc) ==
    CASE doc = "scenarios" -> MaxElements + 1
      [] doc = "markdown" -> 1
      [] OTHER -> MaxElements

PageLimit(doc) == IF doc \in {"paged", "loose"} THEN MaxPages ELSE 1

\* the pages the children callback has opened before its first element
PagesOpened(doc) == IF doc = "loose" THEN 0 ELSE 1

RenderLimit(doc) == IF doc = "paged" THEN MaxRenders ELSE 1

\* ------------------------------------------------------------------------
\* State
\* ------------------------------------------------------------------------
VARIABLES
    layoutDimensions,        \* context.layoutDimensions
    layoutElements,          \* context.layoutElements, in creation order
    openLayoutElementStack,  \* indices into layoutElements, top last
    idMap,                   \* context.idMap as a set of [id, element]
    pages,                   \* context.pages
    currentPageId,           \* context.currentPageId
    renderCommands,          \* context.renderCommands
    processedElements,       \* context.processedElements
    pc,                      \* "build", the pass render() runs next, "done"
    wrapIndex,               \* position of the loop of processTextWrapping
    passLog,                 \* history: the passes completed by this render
    placed,                  \* history: the position given to each element
    thrown,                  \* the message of the Error a call threw, or ""
    renders,                 \* calls of render() so far
    previousCommands,        \* history: the commands of the render before
    drawn,                   \* the pages renderToPDF drew, with their commands
    contexts,                \* the contexts initialize() of the context
                             \* module has created, in creation order
    currentContext,          \* the module-level currentContext, 0 for null
    sharedProcessed,         \* the module-level processedElements
    alone                    \* history: each context as the calls the host
                             \* addressed to it leave it when run alone

vars == << layoutDimensions, layoutElements, openLayoutElementStack, idMap,
           pages, currentPageId, renderCommands, processedElements, pc,
           wrapIndex, passLog, placed, document, thrown, renders,
           previousCommands, drawn, contexts, currentContext,
           sharedProcessed, alone >>

\* the state of the context module of the function API
service == << contexts, currentContext, sharedProcessed, alone >>

\* what only render() and a throwing call change
session == << document, thrown, renders, previousCommands, drawn, service >>

context == << layoutDimensions, idMap, pages, currentPageId >>

\* createDocument: new Pardal(), the dimensions of the document are set and
\* the children callback has opened the page (Pardal.page) it builds in;
\* the loose documents start as the constructor leaves the engine, with
\* no page and currentPageId 0
Init ==
    /\ layoutDimensions \in PageSizes
    /\ layoutElements = <<>>
    /\ openLayoutElementStack = <<>>
    /\ idMap = {}
    /\ document \in Documents
    /\ pages = [k \in 1..PagesOpened(document) |->
                   [id |-> k, sizes |-> layoutDimensions]]
    /\ currentPageId = PagesOpened(document)
    /\ renderCommands = <<>>
    /\ processedElements = {}
    /\ pc = "build"
    /\ wrapIndex = 1
    /\ passLog = <<>>
    /\ placed = <<>>
    /\ thrown = ""
    /\ renders = 0
    /\ previousCommands = <<>>
    /\ drawn = <<>>
    /\ contexts = <<>>
    /\ currentContext = 0
    /\ sharedProcessed = {}
    /\ alone = <<>>

\* ------------------------------------------------------------------------
\* Builder (index.ts, application/element-factory.ts)
\* ------------------------------------------------------------------------
\* ensureIdAndPageId: a declaration without id gets a fresh one
ensureIdAndPageId(decl) ==
    IF decl.id = 0 THEN [decl EXCEPT !.id = Len(layoutElements) + 1] ELSE decl

\* the LayoutElement createElement builds from a declaration
NewElement(config) ==
    [id |-> config.id,
     pageId |-> currentPageId,
     children |-> <<>>,
     dimensions |-> [width |-> 0, height |-> 0],
     minDimensions |-> [width |-> 0, height |-> 0],
     layoutConfig |->
        [sizing |-> [width |-> config.width, height |-> config.height],
         padding |-> parsePadding(config.padding),
         childGap |-> config.childGap,
         childAlignment |-> config.childAlignment,
         layoutDirection |-> config.direction],
     elementType |-> config.elementType,
     textConfig |->
        [defined |-> config.elementType = "text" /\ config.text # <<>>,
         content |-> config.text,
         fontSize |-> IF config.fontSize = 0 THEN DefaultFontSize
                      ELSE config.fontSize,
         textAlignment |-> config.textAlignment,
         lineHeight |-> 0],
     measuredWords |-> [defined |-> FALSE, words |-> <<>>],
     wrappedTextLines |-> [defined |-> FALSE, lines |-> <<>>],
     position |-> config.position]

\* createElement: the element is appended, becomes the last child of the
\* element on top of the open stack, is pushed on the stack and mapped
CreatedElements(config) ==
    LET n == Len(layoutElements) + 1
        top == openLayoutElementStack[Len(openLayoutElementStack)]
        appended == Append(layoutElements, NewElement(config))
    IN  IF Len(openLayoutElementStack) > 0
        THEN [appended EXCEPT ![top].children = Append(@, n)]
        ELSE appended

CreatedIdMap(config) ==
    {m \in idMap : m.id # config.id}
      \cup {[id |-> config.id, element |-> Len(layoutElements) + 1]}

Pop(stack) == SubSeq(stack, 1, Len(stack) - 1)

\* Pardal.element (rect, text): createElement then endElement
Element(decl) ==
    /\ pc = "build"
    /\ Len(layoutElements) < ElementLimit(document)
    /\ LET config == ensureIdAndPageId(decl)
       IN  /\ layoutElements' = CreatedElements(config)
           /\ idMap' = CreatedIdMap(config)
    /\ placed' = Append(placed, NotPlaced)
    /\ UNCHANGED << layoutDimensions, openLayoutElementStack, pages,
                    currentPageId, renderCommands, processedElements, pc,
                    wrapIndex, passLog, session >>

\* Pardal.withChildren up to the call of the children callback: createElement
OpenElement(decl) ==
    /\ pc = "build"
    /\ Len(layoutElements) < ElementLimit(document)
    /\ LET config == ensureIdAndPageId(decl)
       IN  /\ layoutElements' = CreatedElements(config)
           /\ idMap' = CreatedIdMap(config)
    /\ openLayoutElementStack' =
           Append(openLayoutElementStack, Len(layoutElements) + 1)
    /\ placed' = Append(placed, NotPlaced)
    /\ UNCHANGED << layoutDimensions, pages, currentPageId, renderCommands,
                    processedElements, pc, wrapIndex, passLog, session >>

\* Pardal.withChildren after the callback returned: endElement
EndElement ==
    /\ pc = "build"
    /\ Len(openLayoutElementStack) > 0
    /\ openLayoutElementStack' = Pop(openLayoutElementStack)
    /\ UNCHANGED << layoutDimensions, layoutElements, idMap, pages,
                    currentPageId, renderCommands, processedElements, pc,
                    wrapIndex, passLog, placed, session >>

\* a variant that drops the commands and the id map before it throws
EndElementOnEmptyStackResetting ==
    /\ pc \in {"build", "rendered"}
    /\ Len(openLayoutElementStack) = 0
    /\ thrown' = "No open element to close."
    /\ pc' = "failed"
    /\ renderCommands' = <<>>
    /\ idMap' = {}
    /\ UNCHANGED << layoutDimensions, layoutElements, openLayoutElementStack,
                    pages, currentPageId, processedElements, wrapIndex,
                    passLog, placed, document, service, renders, previousCommands,
                    drawn >>

\* endElement called from outside withChildren, with nothing open: the
\* Error is thrown before anything is popped
EndElementOnEmptyStack ==
    /\ pc \in {"build", "rendered"}
    /\ Len(openLayoutElementStack) = 0
    /\ thrown' = "No open element to close."
    /\ pc' = "failed"
    /\ UNCHANGED << layoutDimensions, layoutElements, openLayoutElementStack,
                    idMap, pages, currentPageId, renderCommands,
                    processedElements, wrapIndex, passLog, placed, document, service,
                    renders, previousCommands, drawn >>

\* the children callback of a withChildren throws: withChildren has no
\* try/finally, so the Error leaves every helper that is open without
\* endElement being called, and reaches the caller of the outermost one
ChildrenThrow ==
    /\ pc = "build"
    /\ Len(openLayoutElementStack) > 0
    /\ thrown' = "children"
    /\ pc' = "failed"
    /\ UNCHANGED << layoutDimensions, layoutElements, openLayoutElementStack,
                    idMap, pages, currentPageId, renderCommands,
                    processedElements, wrapIndex, passLog, placed, document, service,
                    renders, previousCommands, drawn >>

\* Pardal.page: a page of the size of the document is opened and becomes
\* the page of the elements created from now on; the documents call it
\* from the children callback of createDocument, with no element open,
\* the loose ones from the callback of a container too
Page ==
    /\ pc = "build"
    /\ openLayoutElementStack = <<>> \/ document = "loose"
    /\ Len(pages) < PageLimit(document)
    /\ currentPageId' = Len(pages) + 1
    /\ pages' = Append(pages, [id |-> Len(pages) + 1,
                               sizes |-> layoutDimensions])
    /\ UNCHANGED << layoutDimensions, layoutElements, openLayoutElementStack,
                    idMap, renderCommands, processedElements, pc, wrapIndex,
                    passLog, placed, session >>

\* ------------------------------------------------------------------------
\* render(): calculateFinalLayout, one action per pass
\* ------------------------------------------------------------------------
\* a variant that wraps the text before distributing widths
NextPassWrapFirst(pass) ==
    CASE pass = "initializeRootElements" -> "calculateMinimumDimensions"
      [] pass = "calculateMinimumDimensions" -> "processTextWrapping"
      [] pass = "processTextWrapping" -> "sizeContainersAlongX"
      [] pass = "sizeContainersAlongX" -> "recalculateMinimumDimensions"
      [] pass = "recalculateMinimumDimensions" -> "sizeContainersAlongY"
      [] pass = "sizeContainersAlongY" -> "generateRenderCommands"
      [] pass = "generateRenderCommands" -> "done"

\* the pass calculateFinalLayout runs after the pass named
NextPass(pass) ==
    CASE pass = "initializeRootElements" -> "calculateMinimumDimensions"
      [] pass = "calculateMinimumDimensions" -> "sizeContainersAlongX"
      [] pass = "sizeContainersAlongX" -> "processTextWrapping"
      [] pass = "processTextWrapping" -> "recalculateMinimumDimensions"
      [] pass = "recalculateMinimumDimensions" -> "sizeContainersAlongY"
      [] pass = "sizeContainersAlongY" -> "generateRenderCommands"
      [] pass = "generateRenderCommands" -> "done"

Completed == /\ pc' = NextPass(pc)
             /\ passLog' = Append(passLog, pc)

\* createDocument calls render() when the children callback has returned:
\* the commands and the processed set are cleared, then the passes run
BeginRender ==
    /\ pc = "build"
    /\ openLayoutElementStack = <<>>
    /\ renderCommands' = <<>>
    /\ processedElements' = {}
    /\ pc' = "initializeRootElements"
    /\ passLog' = <<>>
    /\ wrapIndex' = 1
    /\ renders' = renders + 1
    /\ previousCommands' = renderCommands
    /\ UNCHANGED << layoutDimensions, layoutElements, openLayoutElementStack,
                    idMap, pages, currentPageId, placed, document, service, thrown,
                    drawn >>

\* Pardal.render called once more on the engine that has rendered
RenderAgain ==
    /\ pc = "rendered"
    /\ renders < RenderLimit(document)
    /\ renderCommands' = <<>>
    /\ processedElements' = {}
    /\ pc' = "initializeRootElements"
    /\ passLog' = <<>>
    /\ wrapIndex' = 1
    /\ renders' = renders + 1
    /\ previousCommands' = renderCommands
    /\ UNCHANGED << layoutDimensions, layoutElements, openLayoutElementStack,
                    idMap, pages, currentPageId, placed, document, service, thrown,
                    drawn >>

InitializeRootElements ==
    /\ pc = "initializeRootElements"
    /\ layoutElements' = initializeRootElements(layoutElements,
                             openLayoutElementStack, layoutDimensions)
    /\ Completed
    /\ UNCHANGED << context, openLayoutElementStack, renderCommands,
                    processedElements, wrapIndex, placed, session >>

CalculateMinimumDimensions ==
    /\ pc \in {"calculateMinimumDimensions", "recalculateMinimumDimensions"}
    /\ layoutElements' = calculateMinimumDimensions(layoutElements,
                                                    openLayoutElementStack)
    /\ Completed
    /\ UNCHANGED << context, openLayoutElementStack, renderCommands,
                    processedElements, wrapIndex, placed, session >>

SizeContainersAlongAxis ==
    /\ pc \in {"sizeContainersAlongX", "sizeContainersAlongY"}
    /\ layoutElements' = sizeContainersAlongAxis(layoutElements,
                             openLayoutElementStack, pc = "sizeContainersAlongX")
    /\ Completed
    /\ UNCHANGED << context, openLayoutElementStack, renderCommands,
                    processedElements, wrapIndex, placed, session >>

\* one iteration of the loop of processTextWrapping
WrapNextElement ==
    /\ pc = "processTextWrapping"
    /\ wrapIndex <= Len(layoutElements)
    /\ layoutElements' = WrapElement(layoutElements, wrapIndex)
    /\ wrapIndex' = wrapIndex + 1
    /\ UNCHANGED << context, openLayoutElementStack, renderCommands,
                    processedElements, pc, passLog, placed, session >>

\* the loop of processTextWrapping has visited every element
WrapDone ==
    /\ pc = "processTextWrapping"
    /\ wrapIndex > Len(layoutElements)
    /\ Completed
    /\ UNCHANGED << context, layoutElements, openLayoutElementStack,
                    renderCommands, processedElements, wrapIndex, placed,
                    session >>

GenerateRenderCommands ==
    /\ pc = "generateRenderCommands"
    /\ LET st == generateRenderCommands(layoutElements, openLayoutElementStack,
                                        renderCommands, processedElements,
                                        placed)
       IN  /\ layoutElements' = st.es
           /\ renderCommands' = st.commands
           /\ processedElements' = st.processed
           /\ placed' = st.placed
    /\ Completed
    /\ UNCHANGED << context, openLayoutElementStack, wrapIndex, session >>

\* render() hands the commands to renderToPDF, which rejects when there is
\* no command and draws them page by page otherwise
RenderToPDF ==
    /\ pc = "done"
    /\ IF Len(renderCommands) = 0
       THEN /\ thrown' = "Nenhum comando de renderizacao encontrado."
            /\ pc' = "failed"
            /\ drawn' = drawn
       ELSE /\ drawn' = renderToPDF(renderCommands)
            /\ pc' = "rendered"
            /\ thrown' = thrown
    /\ UNCHANGED << layoutDimensions, layoutElements, openLayoutElementStack,
                    idMap, pages, currentPageId, renderCommands,
                    processedElements, wrapIndex, passLog, placed, document, service,
                    renders, previousCommands >>

Next ==
    \/ \E decl \in LeavesOf(document) : Element(decl)
    \/ \E decl \in ContainersOf(document) : OpenElement(decl)
    \/ EndElement
    \/ EndElementOnEmptyStack
    \/ ChildrenThrow
    \/ Page
    \/ BeginRender
    \/ RenderAgain
    \/ InitializeRootElements
    \/ CalculateMinimumDimensions
    \/ SizeContainersAlongAxis
    \/ WrapNextElement
    \/ WrapDone
    \/ GenerateRenderCommands
    \/ RenderToPDF

Spec == Init /\ [][Next]_vars

\* ------------------------------------------------------------------------
\* Properties
\* ------------------------------------------------------------------------
Elements == 1..Len(layoutElements)

IsPrefix(a, b) == Len(a) <= Len(b) /\ SubSeq(b, 1, Len(a)) = a

PassOrder ==
    << "initializeRootElements", "calculateMinimumDimensions",
       "sizeContainersAlongX", "processTextWrapping",
       "recalculateMinimumDimensions", "sizeContainersAlongY",
       "generateRenderCommands" >>

\* C1: within one render() the passes run once each and in the order root
\* initialization, minima, distribution along X, text reflow, minima again,
\* distribution along Y, positioning and emission; the pass that runs is
\* always the one after the passes completed so far, the reflow has visited
\* every element before the next pass starts, and a finished render has
\* completed exactly these seven passes.
C1_PassesInOrder ==
    /\ IsPrefix(passLog, PassOrder)
    /\ pc \notin {"build", "rendered", "failed"} =>
          pc = IF Len(passLog) = Len(PassOrder) THEN "done"
               ELSE PassOrder[Len(passLog) + 1]
    /\ Len(passLog) >= 4 => wrapIndex = Len(layoutElements) + 1
    /\ pc \in {"done", "rendered"} => passLog = PassOrder

C1_Witness == pc = "done" /\ Len(layoutElements) >= 2

\* C2: after render() every element is at least as large as its minimum,
\* on both axes.
C2_DimensionsAtLeastMinimum ==
    pc = "done" =>
        \A i \in Elements :
            /\ layoutElements[i].dimensions.width
                  >= layoutElements[i].minDimensions.width
            /\ layoutElements[i].dimensions.height
                  >= layoutElements[i].minDimensions.height

\* the elements above element i, nearest first
RECURSIVE Ancestors(_, _)
Ancestors(es, i) ==
    LET p == findParentElement(es, i)
    IN  IF p = 0 THEN <<>> ELSE << p >> \o Ancestors(es, p)

Range(f) == {f[k] : k \in DOMAIN f}

Clamp(v, lo, hi) == Max(Min(v, hi), lo)

\* sum over the children of element p of a per-element value, with the
\* gaps between them
ChildrenExtent(es, p, f) ==
    SumOver(f, es[p].children, 1)
    + (Len(es[p].children) - 1) * es[p].layoutConfig.childGap

WidthsOf(es) == [k \in 1..Len(es) |-> es[k].dimensions.width]
HeightsOf(es) == [k \in 1..Len(es) |-> es[k].dimensions.height]

\* C3: after solving, the children of a ROW element, with the gaps between
\* them and the horizontal padding, fit in its width; the children of a
\* COLUMN element, with gaps and vertical padding, fit in its height.
C3_ChildrenFitInParent ==
    pc = "done" =>
        \A p \in Elements :
            LET e == layoutElements[p]
            IN  Len(e.children) > 0 =>
                  IF e.layoutConfig.layoutDirection = ROW
                  THEN ChildrenExtent(layoutElements, p, WidthsOf(layoutElements))
                         + PaddingX(e) <= e.dimensions.width
                  ELSE ChildrenExtent(layoutElements, p, HeightsOf(layoutElements))
                         + PaddingY(e) <= e.dimensions.height

\* the share clamp(R / k, min, max) of the Grow child g of parent p on the
\* axis, from the sizes in es
GrowShare(es, p, g, isXAxis) ==
    LET e == es[p]
        kids == e.children
        sizes == [k \in 1..Len(es) |->
                    IF SizingOf(es[k], isXAxis).type = GROW THEN 0
                    ELSE SizeOf(es[k], isXAxis)]
        growCount == Cardinality({j \in 1..Len(kids) :
                         SizingOf(es[kids[j]], isXAxis).type = GROW})
        A == SizeOf(e, isXAxis) - PaddingOf(e, isXAxis)
             - (Len(kids) - 1) * e.layoutConfig.childGap
        R == A - SumOver(sizes, kids, 1)
    IN  Clamp(R \div growCount, MinOf(SizingOf(es[g], isXAxis)),
              MaxOf(SizingOf(es[g], isXAxis)))

\* C4: when a pass has distributed space along an axis, every Grow child of
\* a parent laid out along that axis has the size clamp(R / k, min, max),
\* R being the parent's content size minus the gaps and minus the sizes of
\* its Fixed, Percent and Fit siblings, the case R = 0 included.
C4_GrowShare ==
    \A isXAxis \in BOOLEAN :
        (/\ Len(passLog) > 0
         /\ passLog[Len(passLog)] = (IF isXAxis THEN "sizeContainersAlongX"
                                     ELSE "sizeContainersAlongY")) =>
            \A p \in Elements :
                IsLayoutAlongAxis(layoutElements[p], isXAxis) =>
                    \A j \in 1..Len(layoutElements[p].children) :
                        LET g == layoutElements[p].children[j]
                        IN  SizingOf(layoutElements[g], isXAxis).type = GROW =>
                              SizeOf(layoutElements[g], isXAxis)
                                = GrowShare(layoutElements, p, g, isXAxis)

\* the size the root initialization is said to give on an axis
SaidInitialSize(axis, pageSize, current) ==
    CASE axis.type = FIXED -> axis.fixed
      [] axis.type = GROW -> pageSize
      [] axis.type = FIT -> 0
      [] OTHER -> current

\* C5: after the root initialization a parentless element has, on each
\* axis, its Fixed value, the page dimension if it is Grow, 0 if it is Fit.
C5_RootInitialization ==
    passLog = << "initializeRootElements" >> =>
        \A i \in Elements :
            findParentElement(layoutElements, i) = 0 =>
                LET e == layoutElements[i]
                IN  /\ e.dimensions.width
                         = SaidInitialSize(e.layoutConfig.sizing.width,
                                           layoutDimensions.width,
                                           e.dimensions.width)
                    /\ e.dimensions.height
                         = SaidInitialSize(e.layoutConfig.sizing.height,
                                           layoutDimensions.height,
                                           e.dimensions.height)

\* the height S the reflow is said to bubble into ancestor a: the sum of
\* its children's heights with gaps for a COLUMN, the largest child height
\* for a ROW, plus the vertical padding
SaidBubbleHeight(es, a) ==
    (IF es[a].layoutConfig.layoutDirection = COLUMN
     THEN ChildrenExtent(es, a, HeightsOf(es))
     ELSE MaxOver(HeightsOf(es), es[a].children, 1))
    + PaddingY(es[a])

\* C6: when the reflow re-wraps a TEXT element, every FIT-height element on
\* its ancestor chain gets min.height = max(previous min.height, S).
C6_ReflowBubblesToAllAncestors ==
    [][(/\ pc = "processTextWrapping"
        /\ wrapIndex <= Len(layoutElements)
        /\ IsText(layoutElements[wrapIndex])) =>
           \A a \in Range(Ancestors(layoutElements, wrapIndex)) :
               layoutElements[a].layoutConfig.sizing.height.type = FIT =>
                   layoutElements'[a].minDimensions.height
                     = Max(layoutElements[a].minDimensions.height,
                           SaidBubbleHeight(layoutElements', a))]_vars

\* the height of n wrapped lines as it is documented: the line heights
\* plus, after every line but the last, lineHeight - line height
SaidTextHeight(lines, lineHeight) ==
    LET heights == [k \in 1..Len(lines) |-> lines[k].height]
        extras == [k \in 1..Len(lines) |->
                     IF k < Len(lines) THEN lineHeight - lines[k].height ELSE 0]
        all == [k \in 1..Len(lines) |-> k]
    IN  SumOver(heights, all, 1) + SumOver(extras, all, 1)

TextElements == {i \in Elements : IsText(layoutElements[i])}

\* C7: after solving, every TEXT element with FIT height has its wrapped
\* lines populated and its height is the documented text height plus the
\* vertical padding.
C7_TextFitHeight ==
    pc = "done" =>
        \A i \in TextElements :
            LET e == layoutElements[i]
            IN  e.layoutConfig.sizing.height.type = FIT =>
                  /\ e.wrappedTextLines.defined
                  /\ e.dimensions.height
                       = SaidTextHeight(e.wrappedTextLines.lines, LineHeightOf(e))
                         + PaddingY(e)

\* the text height with padding lies between the bounds of the FIT height
HeightUnclamped(e) ==
    LET h == SaidTextHeight(e.wrappedTextLines.lines, LineHeightOf(e))
             + PaddingY(e)
    IN  /\ MinOf(e.layoutConfig.sizing.height) <= h
        /\ h <= MaxOf(e.layoutConfig.sizing.height)

\* C7 (amended): after solving, every TEXT element with FIT height has its
\* wrapped lines computed, and when it has at least one line and the text
\* height plus the vertical padding lies within the min and max of the FIT
\* sizing, the element's height is that text height plus the vertical
\* padding.
C7_TextFitHeightWithinBounds ==
    pc = "done" =>
        \A i \in TextElements :
            LET e == layoutElements[i]
            IN  e.layoutConfig.sizing.height.type = FIT =>
                  /\ e.wrappedTextLines.defined
                  /\ (Len(e.wrappedTextLines.lines) >= 1 /\ HeightUnclamped(e)) =>
                       e.dimensions.height
                         = SaidTextHeight(e.wrappedTextLines.lines,
                                          LineHeightOf(e))
                           + PaddingY(e)

\* a child TEXT with FIT height that wrapped on two lines within its bounds
C7_Witness ==
    /\ pc = "done"
    /\ \E i \in TextElements :
          LET e == layoutElements[i]
          IN  /\ e.layoutConfig.sizing.height.type = FIT
              /\ findParentElement(layoutElements, i) # 0
              /\ Len(e.wrappedTextLines.lines) = 2
              /\ HeightUnclamped(e)

\* the tokens of the wrapped lines of an element, in line order
LineTokens(e) ==
    LET lines == e.wrappedTextLines.lines
        words == Concat([k \in 1..Len(lines) |-> lines[k].content])
    IN  [k \in 1..Len(words) |->
           [text |-> words[k].text, bold |-> words[k].bold,
            italic |-> words[k].italic]]

HasNoBreak(token) == ~ Includes(token.text, NL)

IsScenarioText(e) ==
    /\ IsText(e)
    /\ e.textConfig.content = TextAbCdEf
    /\ e.layoutConfig.sizing.width = SizingFixed(30)
    /\ e.textConfig.textAlignment = "CENTER"

\* the x offsets of the TEXT commands of element i inside its box
TextOffsets(i) ==
    LET own == SelectSeq(renderCommands,
                         LAMBDA c : c.element = i /\ c.commandType = "TEXT")
    IN  [k \in 1..Len(own) |-> own[k].boundingBox.x - placed[i].x]

LineWidths(e) ==
    [k \in 1..Len(e.wrappedTextLines.lines) |-> e.wrappedTextLines.lines[k].width]

NaturalWidth(e) ==
    LET words == measureWords(e.textConfig.content, e.textConfig.fontSize)
        widths == [k \in 1..Len(words) |-> words[k].width]
    IN  SumOver(widths, [k \in 1..Len(words) |-> k], 1)

\* the TEXT commands emitted for element i, in emission order
TextCommandsOf(i) ==
    SelectSeq(renderCommands,
              LAMBDA c : c.element = i /\ c.commandType = "TEXT")

\* a text with Fit width that is the only child of its parent and whose
\* tokens fit on one line of the content box of the parent
IsFittingTextChild(i) ==
    LET e == layoutElements[i]
        p == findParentElement(layoutElements, i)
    IN  /\ IsText(e)
        /\ e.layoutConfig.sizing.width.type = FIT
        /\ p # 0
        /\ Len(layoutElements[p].children) = 1
        /\ NaturalWidth(e) <= layoutElements[p].dimensions.width
                              - PaddingX(layoutElements[p])

\* C11: a TEXT child with Fit width whose natural width fits in its parent
\* ends as wide as its tokens and as high as its font size, is placed at the
\* content origin of its parent and produces exactly one TEXT command that
\* holds its one line.
C11_FitTextChild ==
    pc = "done" =>
        \A i \in Elements :
            IsFittingTextChild(i) =>
                LET e == layoutElements[i]
                    p == findParentElement(layoutElements, i)
                    parent == layoutElements[p]
                IN  /\ e.dimensions.width = NaturalWidth(e)
                    /\ e.dimensions.height = e.textConfig.fontSize
                    /\ placed[i].x = placed[p].x + parent.layoutConfig.padding.left
                    /\ placed[i].y = placed[p].y + parent.layoutConfig.padding.top
                    /\ Len(TextCommandsOf(i)) = 1
                    /\ Len(e.wrappedTextLines.lines) = 1
                    /\ TextCommandsOf(i)[1].content
                           = e.wrappedTextLines.lines[1].content

\* C12: render() called again on the same engine, with the element tree
\* unchanged, yields the command vector of the call before: as many
\* commands, in the same order, with the same page, zIndex, bounding box and
\* payload.
C12_RenderIsRepeatable ==
    (pc = "done" /\ renders >= 2) => renderCommands = previousCommands

\* the bounding box an element was positioned with
BoxOf(i) ==
    [left |-> placed[i].x,
     top |-> placed[i].y,
     right |-> placed[i].x + layoutElements[i].dimensions.width,
     bottom |-> placed[i].y + layoutElements[i].dimensions.height]

Inside(inner, outer) ==
    /\ outer.left <= inner.left /\ inner.right <= outer.right
    /\ outer.top <= inner.top /\ inner.bottom <= outer.bottom

\* C13: after positioning, the bounding box of every element that has a
\* parent lies inside the bounding box of its parent.
C13_ChildInsideParent ==
    pc = "done" =>
        \A i \in Elements :
            findParentElement(layoutElements, i) # 0 =>
                Inside(BoxOf(i), BoxOf(findParentElement(layoutElements, i)))

\* the final size on an axis lies within the bounds of the sizing, unless
\* the sizing is Fixed
WithinSizing(size, sizing) ==
    sizing.type \in {FIT, GROW, PERCENT} =>
        MinOf(sizing) <= size /\ size <= MaxOf(sizing)

\* C14: after solving, for every element that has a parent and each axis
\* whose sizing is Fit, Grow or Percent, the final dimension on that axis
\* lies within the [min, max] of that sizing.
C14_DimensionsWithinSizing ==
    pc = "done" =>
        \A i \in Elements :
            findParentElement(layoutElements, i) # 0 =>
                LET e == layoutElements[i]
                IN  /\ WithinSizing(e.dimensions.width,
                                    e.layoutConfig.sizing.width)
                    /\ WithinSizing(e.dimensions.height,
                                    e.layoutConfig.sizing.height)

\* the pass that has just sized the axis: X before the reflow starts, Y
\* before the commands are generated
SizedX == pc = "processTextWrapping" /\ wrapIndex = 1
SizedY == pc = "generateRenderCommands"

\* the Grow children of p on the axis, when the axis is perpendicular to
\* the layout of p
CrossGrowChildren(es, p, isXAxis) ==
    IF IsLayoutAlongAxis(es[p], isXAxis) THEN {}
    ELSE {k \in 1..Len(es) :
             HasChild(es[p], k) /\ SizingOf(es[k], isXAxis).type = GROW}

\* the space the claim names: the size of the parent minus the padding
\* minus a gap between every two children
SaidAvailable(parent, isXAxis) ==
    SizeOf(parent, isXAxis) - PaddingOf(parent, isXAxis)
    - (Len(parent.children) - 1) * parent.layoutConfig.childGap

SaidCrossGrow(es, isXAxis) ==
    \A p \in 1..Len(es) :
        \A k \in CrossGrowChildren(es, p, isXAxis) :
            SizeOf(es[k], isXAxis)
                = Min(SaidAvailable(es[p], isXAxis),
                      MaxOf(SizingOf(es[k], isXAxis)))

\* C15: after the X pass every Grow-width child of a COLUMN parent has the
\* width min(A, max) with A = parent width - horizontal padding -
\* (n-1) * childGap; after the Y pass the same holds of the Grow-height
\* children of a ROW parent.
C15_CrossGrowLessGaps ==
    /\ SizedX => SaidCrossGrow(layoutElements, TRUE)
    /\ SizedY => SaidCrossGrow(layoutElements, FALSE)

\* distributing the children of p gives every Grow child of the
\* perpendicular axis the space of that axis, capped by its maximum
CrossGrowOnEntry(es, isXAxis) ==
    \A p \in 1..Len(es) :
        \A k \in CrossGrowChildren(es, p, isXAxis) :
            SizeOf(DistributeLevel(es, p, isXAxis)[k], isXAxis)
                = Min(SizeOf(es[p], isXAxis) - PaddingOf(es[p], isXAxis),
                      MaxOf(SizingOf(es[k], isXAxis)))

\* the parents whose size on the axis a pass does not raise after it has
\* been read: those with a parent of their own and those that are not Fit
SettledParents(es, isXAxis) ==
    {p \in 1..Len(es) :
        \/ findParentElement(es, p) # 0
        \/ SizingOf(es[p], isXAxis).type # FIT}

CrossGrowAfterPass(es, isXAxis) ==
    \A p \in SettledParents(es, isXAxis) :
        \A k \in CrossGrowChildren(es, p, isXAxis) :
            SizeOf(es[k], isXAxis)
                = Min(SizeOf(es[p], isXAxis) - PaddingOf(es[p], isXAxis),
                      MaxOf(SizingOf(es[k], isXAxis)))

\* C15 (amended): on the axis perpendicular to the layout of the parent a
\* Grow child receives min(P, max) with P = the size of the parent read when
\* its children are distributed minus the padding; the gaps between the
\* children are not subtracted. After the pass P is the final size of every
\* parent that has a parent of its own or is not Fit on that axis.
C15_CrossGrowFullSpace ==
    /\ pc = "sizeContainersAlongX" => CrossGrowOnEntry(layoutElements, TRUE)
    /\ pc = "sizeContainersAlongY" => CrossGrowOnEntry(layoutElements, FALSE)
    /\ SizedX => CrossGrowAfterPass(layoutElements, TRUE)
    /\ SizedY => CrossGrowAfterPass(layoutElements, FALSE)

C15_Witness ==
    /\ SizedX
    /\ \E p \in Elements :
          /\ layoutElements[p].layoutConfig.layoutDirection = COLUMN
          /\ layoutElements[p].layoutConfig.childGap > 0
          /\ Len(layoutElements[p].children) >= 2
          /\ \E k \in CrossGrowChildren(layoutElements, p, TRUE) :
                layoutElements[k].dimensions.width
                    = layoutElements[p].dimensions.width
                      - PaddingX(layoutElements[p])

\* the sum of the final sizes of the children of p before the k-th, on the
\* layout axis of p
SizesBefore(es, p, k) ==
    LET sizes == [j \in 1..Len(es) |->
                     IF es[p].layoutConfig.layoutDirection = ROW
                     THEN es[j].dimensions.width ELSE es[j].dimensions.height]
    IN  SumOver(sizes, SubSeq(es[p].children, 1, k - 1), 1)

\* the offset the claim gives the k-th child (k from 1) on the layout axis
SaidChildOffset(es, p, k) ==
    SizesBefore(es, p, k) + (k - 1) * es[p].layoutConfig.childGap

\* the heights and the y positions of the children of p, in order
ChildHeights(p) ==
    [k \in 1..Len(layoutElements[p].children) |->
        layoutElements[layoutElements[p].children[k]].dimensions.height]
ChildYs(p) ==
    [k \in 1..Len(layoutElements[p].children) |->
        placed[layoutElements[p].children[k]].y]

\* the scenario: a COLUMN root of 100 x 100 with padding 10 and gap 5 and
\* the children Fixed(20), Grow, Fixed(20)
IsPaddingGapScenario(p) ==
    LET e == layoutElements[p]
        heightOf(k) == layoutElements[e.children[k]].layoutConfig.sizing.height
    IN  /\ findParentElement(layoutElements, p) = 0
        /\ e.layoutConfig.layoutDirection = COLUMN
        /\ e.layoutConfig.sizing.height.type = GROW
        /\ e.layoutConfig.padding.top = 10 /\ e.layoutConfig.childGap = 5
        /\ Len(e.children) = 3
        /\ heightOf(1) = SizingFixed(20)
        /\ heightOf(2).type = GROW
        /\ heightOf(3) = SizingFixed(20)

\* C16: after positioning, in a COLUMN parent with TOP alignment the y of
\* the i-th child is parent.y + padding.top + the heights of the children
\* before it + i * childGap, and symmetrically the x in a ROW parent with
\* LEFT alignment; a COLUMN of 100 x 100 with padding 10, gap 5 and the
\* children Fixed(20), Grow, Fixed(20) has the heights 20, 30, 20 at the y
\* positions 10, 35, 70.
C16_ChildOffsets ==
    pc = "done" =>
        \A p \in Elements :
            LET e == layoutElements[p]
            IN  /\ \A k \in 1..Len(e.children) :
                      IF e.layoutConfig.layoutDirection = COLUMN
                      THEN e.layoutConfig.childAlignment.y = "TOP" =>
                              placed[e.children[k]].y
                                  = placed[p].y + e.layoutConfig.padding.top
                                    + SaidChildOffset(layoutElements, p, k)
                      ELSE e.layoutConfig.childAlignment.x = "LEFT" =>
                              placed[e.children[k]].x
                                  = placed[p].x + e.layoutConfig.padding.left
                                    + SaidChildOffset(layoutElements, p, k)
                /\ IsPaddingGapScenario(p) =>
                      /\ ChildHeights(p) = << 20, 30, 20 >>
                      /\ ChildYs(p) = << 10, 35, 70 >>

\* the depth of element i in the tree: the number of elements above it
Depth(i) == Len(Ancestors(layoutElements, i))

\* C17: every emitted command carries a zIndex equal to the depth of its
\* element in the tree, so the command of an element has a smaller zIndex
\* than the commands of each of its descendants.
C17_ZIndexIsDepth ==
    pc = "done" =>
        \A k \in 1..Len(renderCommands) :
            /\ renderCommands[k].zIndex = Depth(renderCommands[k].element)
            /\ \A j \in 1..Len(renderCommands) :
                  renderCommands[k].element
                      \in Range(Ancestors(layoutElements,
                                          renderCommands[j].element)) =>
                      renderCommands[k].zIndex < renderCommands[j].zIndex

IsAscending(ids) == \A k \in 1..(Len(ids) - 1) : ids[k] < ids[k + 1]

\* the commands of one page and one zIndex, in emission order
EmittedFor(pageId, zIndex) ==
    SelectSeq(renderCommands,
              LAMBDA c : c.pageId = pageId /\ c.zIndex = zIndex)

\* C18: the commands handed to the consumer are grouped by page in
\* ascending page order; within a page they are in ascending zIndex, ties in
\* emission order; the command of an element is consumed before the
\* commands of its descendants on the same page.
C18_ConsumedBackToFront ==
    pc = "rendered" =>
        /\ IsAscending([p \in 1..Len(drawn) |-> drawn[p].pageId])
        /\ {drawn[p].pageId : p \in 1..Len(drawn)}
               = {renderCommands[k].pageId : k \in 1..Len(renderCommands)}
        /\ \A p \in 1..Len(drawn) :
              LET commands == drawn[p].commands
              IN  /\ \A k \in 1..Len(commands) :
                        commands[k].pageId = drawn[p].pageId
                  /\ \A k \in 1..(Len(commands) - 1) :
                        commands[k].zIndex <= commands[k + 1].zIndex
                  /\ \A z \in {commands[k].zIndex : k \in 1..Len(commands)} :
                        SelectSeq(commands, LAMBDA c : c.zIndex = z)
                            = EmittedFor(drawn[p].pageId, z)
                  /\ \A j, k \in 1..Len(commands) :
                        commands[j].element
                            \in Range(Ancestors(layoutElements,
                                                commands[k].element)) =>
                            j < k

\* the y of the TEXT commands of element i, in emission order
TextCommandYs(i) ==
    [k \in 1..Len(TextCommandsOf(i)) |-> TextCommandsOf(i)[k].boundingBox.y]

\* the y the claim gives the lines of element i: the top of the element,
\* the top padding and the share of the vertical alignment, then one line
\* height per line
SaidLineYs(i) ==
    LET e == layoutElements[i]
    IN  [k \in 1..Len(e.wrappedTextLines.lines) |->
            FirstLineY(e, placed[i].y) + (k - 1) * LineHeightOf(e)]

RECURSIVE FilledLineYs(_, _, _, _)
FilledLineYs(lines, k, y, lineHeight) ==
    IF k > Len(lines) THEN <<>>
    ELSE IF Len(lines[k].content) = 0
    THEN FilledLineYs(lines, k + 1, y + lines[k].height, lineHeight)
    ELSE << y >> \o FilledLineYs(lines, k + 1, y + lineHeight, lineHeight)

FilledLines(e) ==
    SelectSeq(e.wrappedTextLines.lines, LAMBDA line : Len(line.content) > 0)

EngineState ==
    << layoutDimensions, layoutElements, openLayoutElementStack, idMap,
       pages, currentPageId, renderCommands, processedElements >>

\* C20: endElement called while the open-element stack is empty raises its
\* error at once and leaves the state of the engine (elements, children,
\* open stack, id map, render commands) as it was before the call.
C20_EndElementOnEmptyStackThrows ==
    [][(openLayoutElementStack = <<>> /\ pc \in {"build", "rendered"}
        /\ pc' = "failed") =>
           /\ thrown' = "No open element to close."
           /\ UNCHANGED EngineState]_vars

C20_Witness ==
    /\ thrown = "No open element to close."
    /\ Len(layoutElements) > 0
    /\ Len(renderCommands) > 0
    /\ idMap # {}

\* C21: every container open is paired with a close on every exit path:
\* when a withChildren-style helper returns, the open-element stack is the
\* one it was called with (the element it pushed is popped and nothing
\* else), and when its children callback throws, every helper the Error
\* leaves has restored the stack, so that the caller of the outermost one,
\* which was called with nothing open, finds nothing open.
C21_OpenPairedWithClose ==
    [][/\ (pc = "build" /\ pc' = "build"
           /\ Len(openLayoutElementStack') < Len(openLayoutElementStack)) =>
              openLayoutElementStack' = Pop(openLayoutElementStack)
       /\ (thrown = "" /\ thrown' = "children") =>
              openLayoutElementStack' = <<>>]_vars

\* C22: render() called before any page was opened fails with no output:
\* no render command is generated and nothing is drawn, whether or not
\* elements were created outside a page.
C22_RenderWithoutPageFails ==
    (pages = <<>> /\ renders > 0) =>
        /\ renderCommands = <<>>
        /\ drawn = <<>>
        /\ pc # "rendered"

\* the pages of the elements and of the commands agree
PagesAgree ==
    /\ \A k \in 1..Len(renderCommands) :
          renderCommands[k].pageId
              = layoutElements[renderCommands[k].element].pageId
    /\ \A i \in Elements :
          \A k \in 1..Len(layoutElements[i].children) :
              layoutElements[layoutElements[i].children[k]].pageId
                  = layoutElements[i].pageId

\* C23: pages are disjoint: the k-th call of page() makes page k current,
\* an element created while page k is current carries pageId k and so does
\* every command emitted for it, and no element has a pageId different
\* from its parent's.
C23_PagesDisjoint ==
    [][/\ currentPageId' = Len(pages')
       /\ Len(layoutElements') > Len(layoutElements) =>
              layoutElements'[Len(layoutElements')].pageId = currentPageId
       /\ PagesAgree']_vars

\* the places, in renderCommands, of the commands emitted for element i
CommandPlaces(i) ==
    {k \in 1..Len(renderCommands) : renderCommands[k].element = i}

\* the place of element i along the layout axis of its parent p
MainAxisPlace(p, i) ==
    IF layoutElements[p].layoutConfig.layoutDirection = ROW
    THEN placed[i].x ELSE placed[i].y

\* C24: the children list of every element is in creation order, and the
\* render keeps it: of two consecutive children the first is placed no
\* further along the layout axis of the parent than the second, and all
\* its commands are emitted before those of the second.
C24_ChildOrderStable ==
    \A p \in Elements :
        LET kids == layoutElements[p].children
        IN  \A k \in 1..(Len(kids) - 1) :
                /\ kids[k] < kids[k + 1]
                /\ pc = "done" =>
                      /\ placed[kids[k]].defined /\ placed[kids[k + 1]].defined
                      /\ MainAxisPlace(p, kids[k])
                             <= MainAxisPlace(p, kids[k + 1])
                      /\ \A a \in CommandPlaces(kids[k]) :
                             \A b \in CommandPlaces(kids[k + 1]) : a < b

\* the width the claim gives a token measured by the font port
SaidTokenWidth(word, fontSize) ==
    IF PortThrows(word.text) \/ PortReturnsNegative(word.text)
    THEN (Len(word.text) * fontSize) \div 2
    ELSE CharWidth * Len(word.text)

\* C25: when the font port throws or returns a negative number for a
\* token, the token gets the width len(text) * fontSize / 2 and a warning
\* is logged for it; the render completes and the other tokens keep the
\* width the port measured.
C25_MeasurementFallback ==
    pc = "done" =>
        \A i \in TextElements :
            LET e == layoutElements[i]
                words == e.measuredWords.words
            IN  /\ e.measuredWords.defined
                /\ \A k \in 1..Len(words) :
                      /\ words[k].width
                             = SaidTokenWidth(words[k], e.textConfig.fontSize)
                      /\ (PortThrows(words[k].text)
                          \/ PortReturnsNegative(words[k].text))
                             => k \in WarnedTokens(words)

\* the warnings a render logs: one per token the font port threw on, and
\* one per text positioned without wrapped lines
RenderWarnings ==
    {[kind |-> "measure", element |-> i] : i \in
        {j \in TextElements :
            WarnedTokens(layoutElements[j].measuredWords.words) # {}}}
    \cup
    {[kind |-> "no lines", element |-> i] : i \in
        {j \in TextElements :
            /\ placed[j].defined
            /\ Len(layoutElements[j].wrappedTextLines.lines) = 0}}

\* the minimum of child c exceeds the size its parent p was assigned
Overconstrained(p, c, isXAxis) ==
    MinDimensionOf(layoutElements[c], isXAxis) > SizeOf(layoutElements[p], isXAxis)

\* C26: when the minimum of a child exceeds, on an axis, the dimension its
\* parent was assigned, the render still completes, the child is at least
\* as large as its minimum on that axis, its command is emitted and the
\* overflow is logged as a warning.
C26_OverconstraintIsReported ==
    pc = "done" =>
        \A p \in Elements :
            \A k \in 1..Len(layoutElements[p].children) :
                \A isXAxis \in BOOLEAN :
                    LET c == layoutElements[p].children[k]
                    IN  Overconstrained(p, c, isXAxis) =>
                           /\ SizeOf(layoutElements[c], isXAxis)
                                  >= MinDimensionOf(layoutElements[c], isXAxis)
                           /\ CommandPlaces(c) # {}
                           /\ [kind |-> "overflow", element |-> c]
                                  \in RenderWarnings

\* the lines the wrapper returns for the tokens of line L at a width
WrappedAgain(L, width) ==
    wrapTextIntoLines(Concat([k \in 1..Len(L.content) |-> L.content[k].text]),
                      L.content, width)

\* widths no smaller than the width of line L
RewrapWidths(L) == { L.width, L.width + 1, DEFAULT_MAX_SIZE }

\* C27: every line the wrapper produced, wrapped again at a width no
\* smaller than its own, comes back as exactly one line with the same
\* tokens and the same width.
C27_WrapIsIdempotent ==
    \A i \in TextElements :
        LET lines == layoutElements[i].wrappedTextLines.lines
        IN  \A k \in 1..Len(lines) :
                \A width \in RewrapWidths(lines[k]) :
                    LET again == WrappedAgain(lines[k], width)
                    IN  /\ Len(again) = 1
                        /\ again[1].content = lines[k].content
                        /\ again[1].width = lines[k].width

\* s without its markers: every "*" is half of a bold toggle or an italic
\* toggle, closed or not
StripMarkers(s) == SelectSeq(s, LAMBDA c : c # "*")

TokenTexts(tokens) == Concat([k \in 1..Len(tokens) |-> tokens[k].text])

NewContext ==
    [layoutElements |-> <<>>, openLayoutElementStack |-> <<>>,
     idMap |-> {}, renderCommands |-> <<>>]

\* createElement on a context: the element is appended, added to the
\* children of the element on top of the open stack, pushed and mapped
ContextCreateElement(ctx, id) ==
    LET n == Len(ctx.layoutElements) + 1
        stack == ctx.openLayoutElementStack
        appended == Append(ctx.layoutElements, [id |-> id, children |-> <<>>])
    IN  [ctx EXCEPT
           !.layoutElements =
               IF Len(stack) > 0
               THEN [appended EXCEPT ![stack[Len(stack)]].children =
                                         Append(@, n)]
               ELSE appended,
           !.openLayoutElementStack = Append(stack, n),
           !.idMap = {m \in @ : m.id # id} \cup {[id |-> id, element |-> n]}]

\* endElement on a context whose stack is not empty
ContextEndElement(ctx) ==
    [ctx EXCEPT !.openLayoutElementStack = Pop(@)]

\* positionElement of the engine of the function API: an element whose id
\* is in the module-level processedElements is skipped, the others are
\* marked, emit their command and position their children;
\* st = [commands, processed]
RECURSIVE ContextPositionElement(_, _, _)
RECURSIVE ContextPositionChildren(_, _, _, _)
ContextPositionChildren(es, st, kids, k) ==
    IF k > Len(kids) THEN st
    ELSE ContextPositionChildren(es, ContextPositionElement(es, st, kids[k]),
                                 kids, k + 1)

ContextPositionElement(es, st, i) ==
    IF es[i].id \in st.processed THEN st
    ELSE ContextPositionChildren(
             es,
             [commands |-> Append(st.commands, [element |-> es[i].id]),
              processed |-> st.processed \cup {es[i].id}],
             es[i].children, 1)

\* generateRenderCommands: every element is a root once the stack is empty
RECURSIVE ContextPositionRoots(_, _, _)
ContextPositionRoots(es, st, i) ==
    IF i > Len(es) THEN st
    ELSE ContextPositionRoots(es, ContextPositionElement(es, st, i), i + 1)

\* LayoutService.endLayout: the open elements are popped, then
\* calculateFinalLayout clears the commands and processedElements and
\* runs the passes
ContextEndLayout(ctx) ==
    LET st == ContextPositionRoots(ctx.layoutElements,
                                   [commands |-> <<>>, processed |-> {}], 1)
    IN  [context |-> [ctx EXCEPT !.openLayoutElementStack = <<>>,
                                 !.renderCommands = st.commands],
         processed |-> st.processed]

\* ensureId of the helpers gives every declaration an id of its own
FreshId ==
    Len(Concat([k \in 1..Len(alone) |-> alone[k].layoutElements])) + 1

\* the variables of the class API, which the function API leaves alone
engine ==
    << layoutDimensions, layoutElements, openLayoutElementStack, idMap,
       pages, currentPageId, renderCommands, processedElements, pc,
       wrapIndex, passLog, placed, document, renders, previousCommands,
       drawn >>

\* initialize(): a new context, which becomes the current one
ServiceInitialize ==
    /\ thrown = ""
    /\ Len(contexts) < MaxInstances
    /\ contexts' = Append(contexts, NewContext)
    /\ alone' = Append(alone, NewContext)
    /\ currentContext' = Len(contexts) + 1
    /\ UNCHANGED << sharedProcessed, thrown, engine >>

\* setCurrentContext(context)
ServiceSetCurrentContext(k) ==
    /\ thrown = ""
    /\ k \in 1..Len(contexts)
    /\ currentContext' = k
    /\ UNCHANGED << contexts, alone, sharedProcessed, thrown, engine >>

\* rect() called by the host while it builds the document of the context
\* target: createElement and endElement act on the current context
ServiceElement(target) ==
    /\ thrown = ""
    /\ target \in 1..Len(contexts)
    /\ FreshId <= MaxElements
    /\ contexts' = [contexts EXCEPT ![currentContext] =
           ContextEndElement(ContextCreateElement(@, FreshId))]
    /\ alone' = [alone EXCEPT ![target] =
           ContextEndElement(ContextCreateElement(@, FreshId))]
    /\ UNCHANGED << currentContext, sharedProcessed, thrown, engine >>

\* withChildren() up to the call of the children callback: createElement
ServiceOpenElement(target) ==
    /\ thrown = ""
    /\ target \in 1..Len(contexts)
    /\ FreshId <= MaxElements
    /\ contexts' = [contexts EXCEPT ![currentContext] =
           ContextCreateElement(@, FreshId)]
    /\ alone' = [alone EXCEPT ![target] = ContextCreateElement(@, FreshId)]
    /\ UNCHANGED << currentContext, sharedProcessed, thrown, engine >>

\* withChildren() after the callback: endElement, which throws when the
\* current context has no open element
ServiceEndElement(target) ==
    /\ thrown = ""
    /\ target \in 1..Len(contexts)
    /\ Len(alone[target].openLayoutElementStack) > 0
    /\ alone' = [alone EXCEPT ![target] = ContextEndElement(@)]
    /\ IF Len(contexts[currentContext].openLayoutElementStack) = 0
       THEN /\ thrown' = "No open element to close."
            /\ contexts' = contexts
       ELSE /\ thrown' = thrown
            /\ contexts' = [contexts EXCEPT ![currentContext] =
                   ContextEndElement(@)]
    /\ UNCHANGED << currentContext, sharedProcessed, engine >>

\* endLayout() called for the document of the context target
ServiceEndLayout(target) ==
    /\ thrown = ""
    /\ target \in 1..Len(contexts)
    /\ alone[target].renderCommands = <<>>
    /\ alone[target].layoutElements # <<>>
    /\ contexts' = [contexts EXCEPT ![currentContext] =
           ContextEndLayout(@).context]
    /\ sharedProcessed' = ContextEndLayout(contexts[currentContext]).processed
    /\ alone' = [alone EXCEPT ![target] = ContextEndLayout(@).context]
    /\ UNCHANGED << currentContext, thrown, engine >>

\* the host starts with no context
InitService == Init /\ document = "general"

NextService ==
    \/ ServiceInitialize
    \/ \E k \in 1..MaxInstances : ServiceSetCurrentContext(k)
    \/ \E target \in 1..MaxInstances : ServiceElement(target)
    \/ \E target \in 1..MaxInstances : ServiceOpenElement(target)
    \/ \E target \in 1..MaxInstances : ServiceEndElement(target)
    \/ \E target \in 1..MaxInstances : ServiceEndLayout(target)

SpecService == InitService /\ [][NextService]_vars

\* C29: independent instances share no mutable state: whatever the host
\* does with one context, interleaved or not with the build of another
\* one, the element tree, the open stack, the id map and the render
\* commands of every context are what its own calls produce when it runs
\* alone.
C29_InstancesIndependent ==
    \A k \in 1..Len(contexts) : contexts[k] = alone[k]

\* the number of commands one emission of the element i produces: a
\* command per line that holds a token for a text with lines, one command
\* for a text without lines, a rectangle or a circle, and none for a text
\* element without content
OwnCommandCount(i) ==
    LET e == layoutElements[i]
    IN  CASE IsText(e) /\ Len(e.wrappedTextLines.lines) > 0 ->
                 Len(FilledLines(e))
          [] e.elementType = "text" /\ ~ IsText(e) -> 0
          [] OTHER -> 1

\* C30: in every render each element of the tree is positioned once and
\* its commands are emitted once: no element is skipped and none is
\* emitted twice, whatever ids the elements carry and whether or not an
\* element was given a position of its own.
C30_EachElementEmittedOnce ==
    pc = "done" =>
        \A i \in Elements :
            /\ placed[i].defined
            /\ Cardinality(CommandPlaces(i)) = OwnCommandCount(i)

====
